---- MODULE Spec2Model ----
(***************************************************************************)
(* Chipper: the Chat API Service (services/api/src/main.py), its RAG       *)
(* orchestrator (services/api/src/core/query.py) and the Web Frontend's    *)
(* session manager (src/web/client_web_server.py, services/web/src/main.py)*)
(*                                                                         *)
(* Text is modelled as a sequence of characters (one-character strings).   *)
(* A multi-character string inside such a sequence stands for a run of     *)
(* ordinary text that contains no quote, no backslash and no "data: ".     *)
(* A Python value that may be None is a sequence of length at most one:    *)
(* None is << >> and a present value v is << v >>.                         *)
(***************************************************************************)
EXTENDS Integers, Sequences, FiniteSets, TLC

\* ------------------------------------------------------------------------
\* Bounds of the model
\* ------------------------------------------------------------------------
MaxChunks == 2
MaxStatus == 1
MaxHeartbeats == 2
ClockStep == 60
MaxNow == 36
HourStep == 12
MaxContextSize == 2
\* longest session context a chat turn is followed to
MaxStored == 4
MaxRuns == 3

\* ------------------------------------------------------------------------
\* Python values
\* ------------------------------------------------------------------------
None == << >>

Some(v) == << v >>

\* Python truthiness of an optional string: None and "" are falsy
Truthy(o) == o # None /\ o[1] # << >>

Min(a, b) == IF a < b THEN a ELSE b

\* ------------------------------------------------------------------------
\* Characters and texts
\* ------------------------------------------------------------------------
\* the character U+4E2D; json.dumps writes it as the six characters \u4e2d
U4E2D == "U+4E2D"

Backslash == "\\"

Quote == "\""

Newline == "\n"

HexDigits == {"0", "1", "2", "3", "4", "5", "6", "7", "8", "9",
              "a", "b", "c", "d", "e", "f"}

\* the literal "data: " of the SSE frame prefix
DataPrefix == << "d", "a", "t", "a", ":", " " >>

Hi == << "h", "i" >>

\* a chunk whose JSON escape runs into the text "ata: "
EscText == << U4E2D, "a", "t", "a", ":", " " >>

\* ------------------------------------------------------------------------
\* json.dumps / str.replace / json.loads on string bodies
\* ------------------------------------------------------------------------
\* json.dumps (ensure_ascii) of one character
json_escape(c) ==
    IF c = U4E2D THEN << Backslash, "u", "4", "e", "2", "d" >>
    ELSE IF c = Quote THEN << Backslash, Quote >>
    ELSE IF c = Backslash THEN << Backslash, Backslash >>
    ELSE IF c = Newline THEN << Backslash, "n" >>
    ELSE << c >>

RECURSIVE json_dumps_str(_)
\* json.dumps of a string: the characters between the quotes
json_dumps_str(s) ==
    IF s = << >> THEN << >>
    ELSE json_escape(Head(s)) \o json_dumps_str(Tail(s))

RECURSIVE str_replace(_, _)
\* Python s.replace(old, ""): every non-overlapping occurrence, left to right
str_replace(s, old) ==
    IF Len(s) < Len(old) THEN s
    ELSE IF SubSeq(s, 1, Len(old)) = old
         THEN str_replace(SubSeq(s, Len(old) + 1, Len(s)), old)
         ELSE << Head(s) >> \o str_replace(Tail(s), old)

RECURSIVE json_valid_str(_)
\* json.loads accepts the string body t (no bare quote, every escape whole)
json_valid_str(t) ==
    IF t = << >> THEN TRUE
    ELSE IF Head(t) = Quote THEN FALSE
    ELSE IF Head(t) = Backslash
         THEN IF Len(t) >= 2 /\ t[2] \in {Quote, Backslash, "n"}
              THEN json_valid_str(SubSeq(t, 3, Len(t)))
              ELSE IF /\ Len(t) >= 6
                      /\ t[2] = "u"
                      /\ \A i \in 3..6 : t[i] \in HexDigits
                   THEN json_valid_str(SubSeq(t, 7, Len(t)))
                   ELSE FALSE
         ELSE json_valid_str(Tail(t))

\* ------------------------------------------------------------------------
\* SSE frames
\* ------------------------------------------------------------------------
\* the value of full_response: null, absent key, or the result object
FullNull == [tag |-> "null", reply |-> << >>]

FullAbsent == [tag |-> "absent", reply |-> << >>]

FullResult(r) == [tag |-> "obj", reply |-> r]

\* f"data: {json.dumps(payload)}\n\n" : the prefix and the serialized
\* payload, every string of it in its escaped form
sse_frame(type, key, text, done, full) ==
    [event |-> "message",
     prefix |-> DataPrefix,
     type |-> json_dumps_str(type),
     key |-> key,
     text |-> json_dumps_str(text),
     done |-> done,
     full |-> [tag |-> full.tag, reply |-> json_dumps_str(full.reply)]]

chunk_frame(content) ==
    sse_frame(<< "chat_response" >>, "chunk", content, FALSE, FullNull)

final_frame(result) ==
    sse_frame(<< "chat_response" >>, "chunk", << >>, TRUE, FullResult(result))

bad_request_frame(msg) ==
    sse_frame(<< "chat_response" >>, "chunk",
              << "Error: Embedding retriever error. " >> \o msg \o << ".", Newline >>,
              TRUE, FullAbsent)

error_frame(msg) ==
    sse_frame(<< "chat_response" >>, "chunk",
              << "Error: " >> \o msg \o << Newline >>, TRUE, FullAbsent)

invalid_json_frame ==
    sse_frame(<< "error" >>, "error", << "Invalid JSON format received." >>,
              TRUE, FullAbsent)

heartbeat_frame ==
    [event |-> "heartbeat", prefix |-> DataPrefix, type |-> << >>,
     key |-> "none", text |-> << >>, done |-> FALSE, full |-> FullAbsent]

\* data_item.replace("data: ", "").strip() : the prefix goes, and so does
\* every other occurrence of "data: " in the frame
strip_data(item) ==
    [item EXCEPT !.prefix = str_replace(item.prefix, DataPrefix),
                 !.type = str_replace(item.type, DataPrefix),
                 !.text = str_replace(item.text, DataPrefix),
                 !.full = [tag |-> item.full.tag,
                           reply |-> str_replace(item.full.reply, DataPrefix)]]

\* json.loads of the stripped frame: ok (no JSONDecodeError) and the value
\* of json_data.get("done")
json_loads(t) ==
    [ok |-> /\ t.prefix = << >>
            /\ json_valid_str(t.type)
            /\ json_valid_str(t.text)
            /\ json_valid_str(t.full.reply),
     done |-> t.done]

\* ------------------------------------------------------------------------
\* Chat API Service: state
\* ------------------------------------------------------------------------
VARIABLES
    env,        \* ALLOW_MODEL_CHANGE, ALLOW_INDEX_CHANGE, ALLOW_MODEL_PULL
    pc,         \* "idle": no request yet; "streaming"; "responded"
    req,        \* the POST /api/chat request
    resp,       \* the HTTP response (status 0: none yet)
    work,       \* backend work done for the request, one flag per kind
    pcW,        \* position of the worker thread run_rag
    nstatus,    \* status events the model check has yielded
    sent,       \* the chunks the token callback was invoked with, in order
    result,     \* what run_query returned to the worker (None: nothing)
    q,          \* queue.Queue of serialized frames
    pcG,        \* position of the response generator generate()
    emitted,    \* the frames generate() has yielded, in order
    waited,     \* seconds the current q.get(timeout) has been blocked
    idle,       \* seconds since generate() started or last dequeued
    hbSince,    \* heartbeats yielded since generate() started or last dequeued
    hbTotal,    \* heartbeats yielded in all
    late        \* some frame was enqueued after a full timeout of waiting

chatVars == << env, pc, req, resp, work, pcW, nstatus, sent, result, q, pcG,
               emitted, waited, idle, hbSince, hbTotal, late >>

\* Web Frontend
VARIABLES
    session,    \* the Flask session (the signed cookie's content)
    now,        \* datetime.now(), in hours
    issued,     \* session tokens issued so far
    arrived,    \* the session as the last request brought it
    validated,  \* the session after the before_request hook of the last request
    webReq,     \* the last request: route and message
    webResp,    \* the last response
    webEnv,     \* the Web Frontend's environment: WEB_API_KEY, MAX_CONTEXT_SIZE
    backend     \* the backend call of the last request and its answer

webVars ==
    << session, now, issued, arrived, validated, webReq, webResp, webEnv,
       backend >>

\* the legacy service, and the health endpoints of the three services
VARIABLES
    lreq,          \* the request to the legacy POST /api/query
    ollama_up,     \* the generation server answers
    es_up,         \* the search engine answers
    apiHealth,     \* the last response of the Chat API Service's health_check
    legacyHealth,  \* the last response of the legacy service's health_check
    localHealth    \* the last response of the Web Frontend's local_health

edgeVars ==
    << lreq, ollama_up, es_up, apiHealth, legacyHealth, localHealth >>

\* the construction of the pipeline configuration and of the routes
VARIABLES
    osenv,       \* the environment variables create_pipeline_config reads
    cfgCall,     \* the last create_pipeline_config call: the variant, and
                 \* whether QueryPipelineConfig raised
    cfgParams,   \* the parameters it passed to QueryPipelineConfig
    flags,       \* PROVIDER_IS_OLLAMA, ENABLE_OLLAMA_PROXY, BYPASS_OLLAMA_RAG
    registered,  \* the route groups registered on the app
    setup        \* how setup_all_routes ended

configVars == << osenv, cfgCall, cfgParams, flags, registered, setup >>

\* the Terminal Chat Client, and the backend the clients are pointed at
VARIABLES
    served,     \* the service behind the clients' base_url
    cliPc,      \* "start": constructed; "loop": prompting; "ended"
    window,     \* conversation_context: the deque's items and its maxlen
    cliMax,     \* config.max_context_size
    cliLast     \* the last step of run(): what was read and what was shown

cliVars == << served, cliPc, window, cliMax, cliLast >>

\* one RAGQueryPipeline instance
VARIABLES
    qcfg,       \* the configuration it is constructed with
    orch,       \* the instance: how construction ended, query_pipeline, and
                \* what it has done so far
    qinit,      \* the requests __init__ made and the answers it got
    qLast       \* the last run_query call and how it ended

qryVars == << qcfg, orch, qinit, qLast >>

vars == << chatVars, webVars, edgeVars, configVars, cliVars, qryVars >>

\* q.get(timeout=120)
QueueTimeout == 120

\* ------------------------------------------------------------------------
\* Requests and responses
\* ------------------------------------------------------------------------
Contents == {None, Some(<< >>), Some(Hi)}

Names == {None, Some(<< >>), Some(<< "n" >>)}

Msg(role, c) == [role |-> role, content |-> c]

MessageLists ==
    {<< >>} \cup {<< Msg("user", c) >> : c \in Contents}
            \cup {<< Msg("user", Some(Hi)), Msg("user", c) >> : c \in Contents}

\* the server-held API_KEY (WEB_API_KEY on the legacy service): the
\* variable's value, or a generated token when it is unset or empty
ServerKey == << "k" >>

\* the X-API-Key header: missing, empty, the server's key, another key
KeyHeaders == {None, Some(<< >>), Some(ServerKey), Some(<< "x" >>)}

\* json: "absent" (no or unparsable body), "empty" ({} or null), "object"
Requests ==
    [json : {"absent", "empty"}, messages : {<< >>}, model : {None},
     index : {None}, stream : {"absent"}, api_key : {None}]
    \cup
    [json : {"object"}, messages : MessageLists, model : Names,
     index : Names, stream : {"false"}, api_key : {None}]
    \cup
    [json : {"object"}, messages : {<< Msg("user", Some(Hi)) >>},
     model : {Some(<< "n" >>)}, index : {None, Some(<< "n" >>)},
     stream : {"true"}, api_key : {None}]
    \cup
    [json : {"object"}, messages : MessageLists, model : {None},
     index : {None}, stream : {"absent"}, api_key : {None}]
    \cup
    [json : {"object"}, messages : {<< >>, << Msg("user", Some(Hi)) >>},
     model : {None}, index : {None}, stream : {"false"},
     api_key : KeyHeaders \ {None}]

NoRequest ==
    [json |-> "none", messages |-> << >>, model |-> None, index |-> None,
     stream |-> "absent", api_key |-> None]

NoResponse ==
    [status |-> 0, kind |-> "none", success |-> FALSE, result |-> None,
     messages |-> << >>]

\* abort(code)
abort(code) ==
    [status |-> code, kind |-> "error", success |-> FALSE, result |-> None,
     messages |-> << >>]

\* jsonify({success, timestamp, result, messages}) : HTTP 200
jsonify(success, res, messages) ==
    [status |-> 200, kind |-> "json", success |-> success, result |-> res,
     messages |-> messages]

\* Response(stream_with_context(generate()), mimetype="text/event-stream")
sse_response ==
    [status |-> 200, kind |-> "sse", success |-> FALSE, result |-> None,
     messages |-> << >>]

\* nothing done yet: no config built, no orchestrator constructed, no thread
\* started, no search-engine call, no generation-server call
NoWork ==
    [config |-> FALSE, rag |-> FALSE, thread |-> FALSE, es |-> FALSE,
     ollama |-> FALSE]

Last(s) == s[Len(s)]

\* ------------------------------------------------------------------------
\* The require_api_key decorators
\* ------------------------------------------------------------------------
\* require_api_key checking the key only when REQUIRE_API_KEY reads "true"
require_api_key_boolean(r, e) ==
    IF e.require_api_key # Some(<< "true" >>) THEN 0
    ELSE IF ~Truthy(r.api_key) \/ r.api_key[1] # ServerKey THEN 401
    ELSE 0

\* Chat API Service: 401 when the decorator aborts, 0 when it calls the
\* handler
require_api_key(r, e) ==
    IF ~Truthy(e.require_api_key) THEN 0
    ELSE IF ~Truthy(r.api_key) \/ r.api_key[1] # ServerKey THEN 401
    ELSE 0

\* legacy service: the key is always required
legacy_require_api_key(r) ==
    IF ~Truthy(r.api_key) \/ r.api_key[1] # ServerKey THEN 401 ELSE 0

\* ------------------------------------------------------------------------
\* chat(): validation and permission checks
\* ------------------------------------------------------------------------
\* chat_abort without the two permission checks
chat_abort_no_permission(r, e) ==
    IF r.json = "absent" THEN 400
    ELSE IF r.json = "empty" THEN 400
    ELSE IF r.messages = << >> THEN 400
    ELSE IF ~Truthy(Last(r.messages).content) THEN 400
    ELSE 0

\* the code of the first abort() the try block reaches, 0 when it reaches none
chat_abort(r, e) ==
    IF r.json = "absent" THEN 400
    ELSE IF r.json = "empty" THEN 400
    ELSE IF r.messages = << >> THEN 400
    ELSE IF ~Truthy(Last(r.messages).content) THEN 400
    ELSE IF Truthy(r.model) /\ ~e.allow_model THEN 403
    ELSE IF Truthy(r.index) /\ ~e.allow_index THEN 403
    ELSE 0

\* except Exception: abort(500). An abort() raises an HTTPException, which
\* is an Exception, so the handler answers 500 whatever was raised in the try.
chat_except(raised) == abort(500)

\* messages[-1].get("content")
query_of(r) == Last(r.messages).content[1]

\* conversation_of keeping the query in the conversation
conversation_whole(r) == r.messages

\* messages[:-1] if len(messages) > 1 else []
conversation_of(r) ==
    IF Len(r.messages) > 1 THEN SubSeq(r.messages, 1, Len(r.messages) - 1)
    ELSE << >>

\* data.get("stream", True), tested for truth
stream_of(r) == r.stream \in {"absent", "true"}

\* ------------------------------------------------------------------------
\* RAGQueryPipeline.__init__: open the document store, check the server's
\* health, check the model and pull it when the show request fails
\* ------------------------------------------------------------------------
InitOutcomes == {"store_fail", "health_fail", "present", "pulled", "pull_fail"}

\* raised: the constructor raises; es, ollama: it called the search engine,
\* the generation server
RAGQueryPipeline_init(o) ==
    [raised |-> o \in {"store_fail", "health_fail", "pull_fail"},
     es |-> TRUE,
     ollama |-> o # "store_fail"]

\* what query_pipeline.run does: "ok", "bad_request" (the retriever's
\* elasticsearch.BadRequestError) or "error" (any other exception)
RunOutcomes == {"ok", "bad_request", "error"}

Replies == {Hi, EscText}

\* the result dict, by its llm.replies list
Results == {[replies |-> << >>]} \cup {[replies |-> << r >>] : r \in Replies}

\* the results a streamed query returns
StreamResults == {[replies |-> << r >>] : r \in Replies}

ErrText == << "boom" >>

\* ------------------------------------------------------------------------
\* Model-check status events (initialize_and_check_models) and their text
\* ------------------------------------------------------------------------
ModelName == << "m" >>

StatusEvents ==
    {[status |-> "pulling", error |-> << >>],
     [status |-> "error", error |-> << "timeout" >>]}

\* "pull" in status.get("error", "").lower()
mentions_pull(err) == \E i \in 1..Len(err) : err[i] = "pull"

format_model_status(status, e) ==
    IF ~e.allow_pull THEN None
    ELSE IF status.status = "pulling"
         THEN Some(<< "Starting to download model " >> \o ModelName \o << "..." >>)
    ELSE IF status.status = "progress"
         THEN Some(<< "Downloading model " >> \o ModelName
                   \o << ":", " ", "0", "% complete" >>)
    ELSE IF status.status = "complete"
         THEN Some(<< "Successfully downloaded model " >> \o ModelName)
    ELSE IF status.status = "error" /\ mentions_pull(status.error)
         THEN Some(<< "Error downloading model " >> \o ModelName
                   \o << ":", " " >> \o status.error)
    ELSE None

\* ------------------------------------------------------------------------
\* Chat API Service: initial state
\* ------------------------------------------------------------------------
\* the environments: ALLOW_MODEL_CHANGE, ALLOW_INDEX_CHANGE, ALLOW_MODEL_PULL
\* as booleans, REQUIRE_API_KEY as the variable's text (None when unset)
Envs ==
    {[allow_model |-> TRUE, allow_index |-> TRUE, allow_pull |-> TRUE,
      require_api_key |-> None],
     [allow_model |-> FALSE, allow_index |-> TRUE, allow_pull |-> TRUE,
      require_api_key |-> None],
     [allow_model |-> TRUE, allow_index |-> FALSE, allow_pull |-> TRUE,
      require_api_key |-> None],
     [allow_model |-> TRUE, allow_index |-> TRUE, allow_pull |-> FALSE,
      require_api_key |-> Some(<< >>)],
     [allow_model |-> TRUE, allow_index |-> TRUE, allow_pull |-> TRUE,
      require_api_key |-> Some(<< "false" >>)]}

streamVars == << pcW, nstatus, sent, result, q, pcG, emitted, waited, idle,
                 hbSince, hbTotal, late >>

\* ------------------------------------------------------------------------
\* POST /api/chat
\* ------------------------------------------------------------------------
\* the decorator aborts with 401: chat() is not called
chat_unauthorized(r) ==
    /\ pc = "idle"
    /\ UNCHANGED << webVars, edgeVars, configVars, cliVars, qryVars >>
    /\ require_api_key(r, env) # 0
    /\ req' = r
    /\ resp' = abort(require_api_key(r, env))
    /\ pc' = "unauthorized"
    /\ UNCHANGED << env, work, streamVars >>

\* a validation or permission check aborts; the except clause answers
chat_rejected(r) ==
    /\ pc = "idle"
    /\ UNCHANGED << webVars, edgeVars, configVars, cliVars, qryVars >>
    /\ require_api_key(r, env) = 0
    /\ chat_abort(r, env) # 0
    /\ req' = r
    /\ resp' = chat_except(chat_abort(r, env))
    /\ pc' = "responded"
    /\ UNCHANGED << env, work, streamVars >>

\* stream=false: create_pipeline_config, then handle_standard_response
handle_standard_response(r) ==
    /\ pc = "idle"
    /\ UNCHANGED << webVars, edgeVars, configVars, cliVars, qryVars >>
    /\ require_api_key(r, env) = 0
    /\ chat_abort(r, env) = 0
    /\ ~stream_of(r)
    /\ req' = r
    /\ pc' = "responded"
    /\ \E o \in InitOutcomes, built \in BOOLEAN, run \in RunOutcomes, res \in Results :
         LET init == RAGQueryPipeline_init(o)
             \* run_query: the lazy create_query_pipeline, then the run
             ran == built /\ run = "ok"
             success == ran
             value == IF ran THEN Some(res) ELSE None
             truthy == ran
         IN  IF init.raised
             THEN \* raised in the try of chat(): except Exception
                  /\ resp' = chat_except(500)
                  /\ result' = None
                  /\ work' = [work EXCEPT !.config = TRUE, !.rag = TRUE,
                                          !.es = init.es,
                                          !.ollama = init.ollama]
             ELSE /\ work' = [work EXCEPT !.config = TRUE, !.rag = TRUE,
                                          !.es = init.es,
                                          !.ollama = init.ollama \/ built]
                  /\ result' = value
                  /\ IF success /\ truthy
                     THEN IF res.replies = << >>
                          THEN \* replies[0] raises IndexError outside the inner try
                               resp' = chat_except(500)
                          ELSE resp' = jsonify(TRUE, value,
                                   Append(conversation_of(r),
                                          Msg("assistant", Some(res.replies[1]))))
                     ELSE resp' = jsonify(success, value, conversation_of(r))
    /\ UNCHANGED << env, pcW, nstatus, sent, q, pcG, emitted, waited, idle,
                    hbSince, hbTotal, late >>

\* stream is true or missing: create_pipeline_config, then
\* handle_streaming_response up to the return of the Response
handle_streaming_response(r) ==
    /\ pc = "idle"
    /\ UNCHANGED << webVars, edgeVars, configVars, cliVars, qryVars >>
    /\ require_api_key(r, env) = 0
    /\ chat_abort(r, env) = 0
    /\ stream_of(r)
    /\ req' = r
    /\ \E o \in InitOutcomes :
         LET init == RAGQueryPipeline_init(o)
         IN  /\ work' = [work EXCEPT !.config = TRUE, !.rag = TRUE,
                                     !.es = init.es,
                                     !.ollama = init.ollama,
                                     !.thread = ~init.raised]
             /\ IF init.raised
                THEN /\ resp' = chat_except(500)
                     /\ pc' = "responded"
                     /\ UNCHANGED << pcW, pcG >>
                ELSE /\ resp' = sse_response
                     /\ pc' = "streaming"
                     /\ pcW' = "check"
                     /\ pcG' = "wait"
    /\ UNCHANGED << env, nstatus, sent, result, q, emitted, waited, idle,
                    hbSince, hbTotal, late >>

\* ------------------------------------------------------------------------
\* The worker thread run_rag
\* ------------------------------------------------------------------------
\* q.put(frame) on a queue with room for one frame: put waits for the
\* generator to take it
q_put_blocking(frame) ==
    /\ Len(q) < 1
    /\ q' = Append(q, frame)
    /\ late' = (late \/ (pcG = "wait" /\ q = << >> /\ idle >= QueueTimeout))

\* q.put(frame); the queue is unbounded, so put never blocks
q_put(frame) ==
    /\ q' = Append(q, frame)
    /\ late' = (late \/ (pcG = "wait" /\ q = << >> /\ idle >= QueueTimeout))

\* one status event of the model check, turned into a chunk frame when
\* format_model_status gives a message
run_rag_status ==
    /\ pcW = "check"
    /\ UNCHANGED << webVars, edgeVars, configVars, cliVars, qryVars >>
    /\ nstatus < MaxStatus
    /\ nstatus' = nstatus + 1
    /\ \E st \in StatusEvents :
         LET message == format_model_status(st, env)
         IN  IF Truthy(message)
             THEN q_put(chunk_frame(message[1] \o << Newline >>))
             ELSE UNCHANGED << q, late >>
    /\ UNCHANGED << env, pc, req, resp, work, pcW, sent, result, pcG, emitted,
                    waited, idle, hbSince, hbTotal >>

\* the model check ends: normally, or by raising
run_rag_checked ==
    /\ pcW = "check"
    /\ UNCHANGED << webVars, edgeVars, configVars, cliVars, qryVars >>
    /\ \E ok \in BOOLEAN :
         IF ok
         THEN /\ pcW' = "build"
              /\ UNCHANGED << q, late >>
         ELSE /\ pcW' = "exit"
              /\ q_put(error_frame(ErrText))
    /\ UNCHANGED << env, pc, req, resp, work, nstatus, sent, result, pcG,
                    emitted, waited, idle, hbSince, hbTotal >>

\* rag.create_query_pipeline()
run_rag_build ==
    /\ pcW = "build"
    /\ UNCHANGED << webVars, edgeVars, configVars, cliVars, qryVars >>
    /\ \E ok \in BOOLEAN :
         IF ok
         THEN /\ pcW' = "query"
              /\ UNCHANGED << q, late >>
         ELSE /\ pcW' = "exit"
              /\ q_put(error_frame(ErrText))
    /\ UNCHANGED << env, pc, req, resp, work, nstatus, sent, result, pcG,
                    emitted, waited, idle, hbSince, hbTotal >>

\* rag.run_query: the embedder and the retriever run before the generator
run_rag_retrieve ==
    /\ pcW = "query"
    /\ UNCHANGED << webVars, edgeVars, configVars, cliVars, qryVars >>
    /\ \E run \in RunOutcomes :
         IF run = "ok"
         THEN /\ pcW' = "generate"
              /\ work' = [work EXCEPT !.es = TRUE, !.ollama = TRUE]
              /\ UNCHANGED << q, late >>
         ELSE IF run = "bad_request"
         THEN /\ pcW' = "exit"
              /\ work' = [work EXCEPT !.es = TRUE, !.ollama = TRUE]
              /\ q_put(bad_request_frame(ErrText))
         ELSE /\ pcW' = "exit"
              /\ work' = [work EXCEPT !.ollama = TRUE]
              /\ q_put(error_frame(ErrText))
    /\ UNCHANGED << env, pc, req, resp, nstatus, sent, result, pcG, emitted,
                    waited, idle, hbSince, hbTotal >>

\* the chunks a generator may produce; the empty one is dropped by the callback
Chunks == {<< >>, Hi, EscText}

\* the generator invokes streaming_callback(chunk)
streaming_callback ==
    /\ pcW = "generate"
    /\ UNCHANGED << webVars, edgeVars, configVars, cliVars, qryVars >>
    /\ Len(sent) < MaxChunks
    /\ \E content \in Chunks :
         /\ sent' = Append(sent, content)
         /\ IF content # << >>
            THEN q_put(chunk_frame(content))
            ELSE UNCHANGED << q, late >>
    /\ UNCHANGED << env, pc, req, resp, work, pcW, nstatus, result, pcG,
                    emitted, waited, idle, hbSince, hbTotal >>

\* run_query returns the result (final frame) or raises (error frame)
run_rag_finish ==
    /\ pcW = "generate"
    /\ UNCHANGED << webVars, edgeVars, configVars, cliVars, qryVars >>
    /\ pcW' = "exit"
    /\ UNCHANGED work
    /\ \E ok \in BOOLEAN, res \in StreamResults :
         IF ok
         THEN /\ result' = Some(res)
              /\ q_put(final_frame(IF res.replies = << >> THEN << >>
                                   ELSE res.replies[1]))
         ELSE /\ result' = None
              /\ q_put(error_frame(ErrText))
    /\ UNCHANGED << env, pc, req, resp, nstatus, sent, pcG, emitted, waited,
                    idle, hbSince, hbTotal >>

\* ------------------------------------------------------------------------
\* The response generator generate()
\* ------------------------------------------------------------------------
\* time passes while q.get(timeout=120) is blocked on the empty queue
generate_wait ==
    /\ pcG = "wait"
    /\ UNCHANGED << webVars, edgeVars, configVars, cliVars, qryVars >>
    /\ q = << >>
    /\ waited < QueueTimeout
    /\ hbTotal < MaxHeartbeats
    /\ waited' = Min(waited + ClockStep, QueueTimeout)
    /\ idle' = idle + (Min(waited + ClockStep, QueueTimeout) - waited)
    /\ UNCHANGED << env, pc, req, resp, work, pcW, nstatus, sent, result, q,
                    pcG, emitted, hbSince, hbTotal, late >>

\* generate_heartbeat leaving the loop after the heartbeat
generate_heartbeat_closes ==
    /\ pcG = "wait"
    /\ UNCHANGED << webVars, edgeVars, configVars, cliVars, qryVars >>
    /\ q = << >>
    /\ waited = QueueTimeout
    /\ emitted' = Append(emitted, heartbeat_frame)
    /\ waited' = 0
    /\ hbSince' = hbSince + 1
    /\ hbTotal' = hbTotal + 1
    /\ pcG' = "closed"
    /\ UNCHANGED << env, pc, req, resp, work, pcW, nstatus, sent, result, q,
                    idle, late >>

\* q.get raises queue.Empty: yield a heartbeat and loop
generate_heartbeat ==
    /\ pcG = "wait"
    /\ UNCHANGED << webVars, edgeVars, configVars, cliVars, qryVars >>
    /\ q = << >>
    /\ waited = QueueTimeout
    /\ emitted' = Append(emitted, heartbeat_frame)
    /\ waited' = 0
    /\ hbSince' = hbSince + 1
    /\ hbTotal' = hbTotal + 1
    /\ pcG' = "wait"
    /\ UNCHANGED << env, pc, req, resp, work, pcW, nstatus, sent, result, q,
                    idle, late >>

\* q.get returns an item: yield it, parse it again, stop on done or on a
\* JSONDecodeError (after yielding the generic error frame)
generate_get ==
    /\ pcG = "wait"
    /\ UNCHANGED << webVars, edgeVars, configVars, cliVars, qryVars >>
    /\ q # << >>
    /\ q' = Tail(q)
    /\ LET data_item == Head(q)
           json_data == json_loads(strip_data(data_item))
       IN  IF ~json_data.ok
           THEN /\ emitted' = emitted \o << data_item, invalid_json_frame >>
                /\ pcG' = "closed"
           ELSE /\ emitted' = Append(emitted, data_item)
                /\ pcG' = IF json_data.done = TRUE THEN "closed" ELSE "wait"
    /\ waited' = 0
    /\ idle' = 0
    /\ hbSince' = 0
    /\ UNCHANGED << env, pc, req, resp, work, pcW, nstatus, sent, result,
                    hbTotal, late >>

\* the client closes the connection: the server closes generate() where it
\* is suspended; nothing in handle_streaming_response tells the thread
client_disconnect ==
    /\ pcG = "wait"
    /\ UNCHANGED << webVars, edgeVars, configVars, cliVars, qryVars >>
    /\ pc = "streaming"
    /\ pcG' = "disconnected"
    /\ UNCHANGED << env, pc, req, resp, work, pcW, nstatus, sent, result, q,
                    emitted, waited, idle, hbSince, hbTotal, late >>

\* ------------------------------------------------------------------------
\* The legacy service: POST /api/query
\* ------------------------------------------------------------------------
Conversations ==
    {<< >>, << Msg("user", Some(Hi)), Msg("assistant", Some(Hi)) >>}

\* json: "absent" (no JSON body) or "object"; conversation: None when the
\* key is missing from the body
LegacyRequests ==
    [json : {"absent"}, query : {None}, conversation : {None},
     api_key : KeyHeaders]
    \cup
    [json : {"object"}, query : {None, Some(Hi)},
     conversation : {None} \cup {Some(c) : c \in Conversations},
     api_key : KeyHeaders]

NoLegacyRequest ==
    [json |-> "none", query |-> None, conversation |-> None, api_key |-> None]

\* data.get("conversation", [])
legacy_conversation(r) ==
    IF r.conversation = None THEN << >> ELSE r.conversation[1]

\* latest_interaction: the user's entry with the query, then the
\* assistant's with the first reply
latest_interaction(query, reply) ==
    << Msg("user", query), Msg("assistant", Some(reply)) >>

\* query_endpoint: the require_api_key decorator, then process_query
query_endpoint(r) ==
    /\ pc = "idle"
    /\ UNCHANGED << webVars, configVars, cliVars, qryVars >>
    /\ pc' = "legacy"
    /\ lreq' = r
    /\ IF legacy_require_api_key(r) # 0
       THEN /\ resp' = abort(legacy_require_api_key(r))
            /\ UNCHANGED << work, result >>
       ELSE IF r.json = "absent"
       THEN \* data is None: data.get raises, except Exception: abort(500)
            /\ resp' = abort(500)
            /\ UNCHANGED << work, result >>
       ELSE \E o \in InitOutcomes, built \in BOOLEAN, run \in RunOutcomes,
               res \in Results :
              LET init == RAGQueryPipeline_init(o)
                  success == built /\ run = "ok"
                  value == IF success THEN Some(res) ELSE None
              IN  IF init.raised
                  THEN \* raised before the inner try: abort(500)
                       /\ resp' = abort(500)
                       /\ result' = None
                       /\ work' = [work EXCEPT !.rag = TRUE, !.es = init.es,
                                               !.ollama = init.ollama]
                  ELSE /\ work' = [work EXCEPT !.rag = TRUE, !.es = init.es,
                                               !.ollama = init.ollama \/ built]
                       /\ result' = value
                       /\ IF success
                          THEN IF res.replies = << >>
                               THEN \* replies[0] raises IndexError: abort(500)
                                    resp' = abort(500)
                               ELSE resp' = jsonify(TRUE, value,
                                        legacy_conversation(r)
                                        \o latest_interaction(r.query,
                                                              res.replies[1]))
                          ELSE resp' = jsonify(FALSE, value,
                                               legacy_conversation(r))
    /\ UNCHANGED << env, req, pcW, nstatus, sent, q, pcG, emitted, waited,
                    idle, hbSince, hbTotal, late >>
    /\ UNCHANGED << ollama_up, es_up, apiHealth, legacyHealth, localHealth >>

ChatNext ==
    \/ \E r \in Requests : chat_unauthorized(r)
    \/ \E r \in LegacyRequests : query_endpoint(r)
    \/ \E r \in Requests : chat_rejected(r)
    \/ \E r \in Requests : handle_standard_response(r)
    \/ \E r \in Requests : handle_streaming_response(r)
    \/ run_rag_status
    \/ run_rag_checked
    \/ run_rag_build
    \/ run_rag_retrieve
    \/ streaming_callback
    \/ run_rag_finish
    \/ generate_wait
    \/ generate_heartbeat
    \/ generate_get

\* the steps of the thread run_rag
WorkerNext ==
    \/ run_rag_status
    \/ run_rag_checked
    \/ run_rag_build
    \/ run_rag_retrieve
    \/ streaming_callback
    \/ run_rag_finish

\* the steps of generate(), taken while the server iterates the response
GenerateNext ==
    \/ generate_wait
    \/ generate_heartbeat
    \/ generate_get

\* the requests with "stream": true, on the default index
StreamRequests == {r \in Requests : r.stream = "true" /\ r.index = None}

\* one streaming request, its thread, its generator and its client
StreamNext ==
    \/ \E r \in StreamRequests : handle_streaming_response(r)
    \/ WorkerNext
    \/ GenerateNext
    \/ client_disconnect

\* ------------------------------------------------------------------------
\* Web Frontend: state
\* ------------------------------------------------------------------------
\* timedelta(hours=24)
SessionLifetime == 24

\* datetime.isoformat(): the date and the time of day
isoformat(t) == [date |-> t \div 24, time |-> t % 24]

\* datetime.fromisoformat()
fromisoformat(s) == s.date * 24 + s.time

\* session.clear(): no key left
EmptySession ==
    [session_id |-> None, created_at |-> None, context |-> None,
     es_index |-> None, model_name |-> None]

\* secrets.token_urlsafe(32): 256 random bits, taken as a token never
\* issued before
token_urlsafe(n) == n + 1

\* _initialize_new_session without session.clear()
_initialize_new_session_keep(s, t, n) ==
    [s EXCEPT !.session_id = Some(token_urlsafe(n)),
              !.created_at = Some(isoformat(t)),
              !.context = Some(<< >>)]

\* session.clear(), then a new session_id, created_at now, an empty context
_initialize_new_session(s, t, n) ==
    [EmptySession EXCEPT !.session_id = Some(token_urlsafe(n)),
                         !.created_at = Some(isoformat(t)),
                         !.context = Some(<< >>)]

\* datetime.now() - created_at > timedelta(hours=24)
session_expired(s, t) ==
    /\ s.created_at # None
    /\ t - fromisoformat(s.created_at[1]) > SessionLifetime

\* the session needs replacing: no session_id, or expired
needs_new_session(s, t) ==
    IF s.session_id = None THEN TRUE
    ELSE IF s.created_at # None THEN session_expired(s, t)
    ELSE FALSE

_ensure_valid_session(s, t, n) ==
    IF needs_new_session(s, t) THEN _initialize_new_session(s, t, n) ELSE s

\* tokens issued after _ensure_valid_session
issued_after(s, t, n) == IF needs_new_session(s, t) THEN n + 1 ELSE n

\* session.get('context', [])
get_chat_context(s) == IF s.context = None THEN << >> ELSE s.context[1]

\* the Python slice context[start:]: a negative start counts from the end,
\* and -0 is 0, the start of the list
slice_from(context, start) ==
    LET n == Len(context)
        first == IF start < 0
                 THEN (IF n + start < 0 THEN 0 ELSE n + start)
                 ELSE Min(start, n)
    IN  SubSeq(context, first + 1, n)

\* context[-max_size:] when longer than max_size
trim(context, max_size) ==
    IF Len(context) > max_size
    THEN slice_from(context, 0 - max_size)
    ELSE context

update_chat_context(s, role, content, max_size) ==
    [s EXCEPT !.context =
        Some(trim(Append(get_chat_context(s), [role |-> role, content |-> content]),
                  max_size))]

RECURSIVE update_with_replies(_, _, _)
\* for reply in replies: update_chat_context("chipper", reply, max_size)
update_with_replies(s, replies, max_size) ==
    IF replies = << >> THEN s
    ELSE update_with_replies(
             update_chat_context(s, "chipper", Head(replies), max_size),
             Tail(replies), max_size)

\* clear_context()
clear_context(s) ==
    IF s.session_id # None THEN [s EXCEPT !.context = Some(<< >>)] ELSE s

\* ------------------------------------------------------------------------
\* Web Frontend: chat messages and commands
\* ------------------------------------------------------------------------
\* a message is the list of its words; a word in SlashWords begins with '/'
SlashWords ==
    {"/help", "/index", "/INDEX", "/model", "/clear", "/foo", "/bar"}

WebMessages ==
    {<< >>, << "hello" >>, << "/help" >>, << "/index" >>, << "/index", "n" >>,
     << "/INDEX", "n" >>, << "/model" >>, << "/model", "n" >>, << "/clear" >>,
     << "/foo" >>, << "/bar", "n" >>}

\* str.lower() of a command word
lower(w) ==
    IF w = "/INDEX" THEN "/index"
    ELSE IF w = "HF" THEN "hf"
    ELSE IF w = "/QUIT" THEN "/quit"
    ELSE w

Commands == {"/help", "/index", "/model", "/clear"}

ReplyLists == {<< >>, << << "r1" >> >>, << << "r1" >>, << "r2" >> >>}

\* what the backend call client.query does: "ok" (HTTP 200, the result holds
\* llm.replies), "no_result" (HTTP 200 without a result), "null_result"
\* (HTTP 200 with result null), "api_error" (APIError)
BackendOutcomes == {"ok", "no_result", "null_result", "api_error"}

\* the default of .get("replies", ["No response received"])
NoResponseReceived == << << "No response received" >> >>

\* the values of MAX_CONTEXT_SIZE
ContextSizes == 0..MaxContextSize

\* the environment of the Web Frontend: WEB_API_KEY, MAX_CONTEXT_SIZE
WebEnvs == [api_key : {None, Some("k")}, max_context_size : ContextSizes]

\* Python truthiness of an optional word
TruthyWord(o) == o # None /\ o[1] # ""

\* Config() raises ValueError without WEB_API_KEY
Config_raises(e) == ~TruthyWord(e.api_key)

\* APIClient.query without the es_index of the session
APIClient_query_no_index(query_text, conversation_context, es_index, model_name) ==
    [query |-> query_text, conversation |-> conversation_context,
     es_index |-> None,
     model_name |-> IF TruthyWord(model_name) THEN model_name ELSE None]

\* the payload APIClient.query posts to /api/query
APIClient_query(query_text, conversation_context, es_index, model_name) ==
    [query |-> query_text, conversation |-> conversation_context,
     es_index |-> IF TruthyWord(es_index) THEN es_index ELSE None,
     model_name |-> IF TruthyWord(model_name) THEN model_name ELSE None]

\* no backend call
NoCall == None

\* a backend call: its payload and the backend's answer
Call(payload, outcome, replies) ==
    Some([payload |-> payload, outcome |-> outcome, replies |-> replies])

NoWebRequest == [route |-> "none", message |-> << >>, size |-> None]

WebRequest(route, message) ==
    [route |-> route, message |-> message, size |-> None]

NoWebResponse ==
    [status |-> 0, error |-> "", suggestion |-> "", replies |-> << >>,
     session_id |-> None, forwarded |-> FALSE]

web_response(status, error, replies, sid, forwarded) ==
    [status |-> status, error |-> error, suggestion |-> "",
     replies |-> replies, session_id |-> sid, forwarded |-> forwarded]

\* f'Unknown command: {command}'
unknown_command(command) ==
    IF command = "/foo" THEN "Unknown command: /foo"
    ELSE IF command = "/bar" THEN "Unknown command: /bar"
    ELSE "Unknown command"

\* the error response of chat() for a command handle_command does not know
unknown_command_response(command) ==
    [web_response(400, unknown_command(command), << >>, None, FALSE)
        EXCEPT !.suggestion = "Use /help to see available commands"]

\* the before_request hook validate_session, common to every route
before_request ==
    /\ arrived' = session
    /\ validated' = _ensure_valid_session(session, now, issued)

\* GET / : render the chat page
web_index ==
    /\ before_request
    /\ UNCHANGED << chatVars, edgeVars, configVars, cliVars, qryVars >>
    /\ session' = _ensure_valid_session(session, now, issued)
    /\ issued' = issued_after(session, now, issued)
    /\ webReq' = WebRequest("index", << >>)
    /\ webResp' = web_response(200, "", << >>, None, FALSE)
    /\ backend' = NoCall
    /\ UNCHANGED << now, webEnv >>

\* POST /api/clear
web_clear ==
    /\ before_request
    /\ UNCHANGED << chatVars, edgeVars, configVars, cliVars, qryVars >>
    /\ session' = clear_context(_ensure_valid_session(session, now, issued))
    /\ issued' = issued_after(session, now, issued)
    /\ webReq' = WebRequest("clear", << >>)
    /\ webResp' = web_response(200, "", << >>, None, FALSE)
    /\ backend' = NoCall
    /\ UNCHANGED << now, webEnv >>

\* handle_set_index with an argument: session['es_index'] = args[0]
handle_set_index(s, args) == [s EXCEPT !.es_index = Some(args[1])]

\* handle_set_model with an argument: session['model_name'] = args[0]
handle_set_model(s, args) == [s EXCEPT !.model_name = Some(args[1])]

\* handle_command clearing the chat history on a command it does not know
handle_command_unknown_clears(s, message) ==
    LET command == lower(message[1])
        args == Tail(message)
    IN  IF command \notin Commands
        THEN [session |-> clear_context(s),
              resp |-> unknown_command_response(command)]
        ELSE IF command = "/help"
        THEN [session |-> s,
              resp |-> web_response(200, "", << << "Available commands:" >> >>,
                                    s.session_id, FALSE)]
        ELSE IF command = "/clear"
        THEN [session |-> clear_context(s),
              resp |-> web_response(200, "", << << "Chat history cleared." >> >>,
                                    s.session_id, FALSE)]
        ELSE IF args = << >>
        THEN \* self.commands['/set_index'] / ['/set_model'] : KeyError,
             \* caught by the except Exception of chat()
             [session |-> s,
              resp |-> web_response(500, "An unexpected error occurred", << >>,
                                    None, FALSE)]
        ELSE IF command = "/index"
        THEN [session |-> handle_set_index(s, args),
              resp |-> web_response(200, "", << << "index set" >> >>,
                                    s.session_id, FALSE)]
        ELSE [session |-> handle_set_model(s, args),
              resp |-> web_response(200, "", << << "model set" >> >>,
                                    s.session_id, FALSE)]

\* the result of CommandManager.handle_command on a message that starts
\* with '/': the session it leaves and the response of chat()
handle_command(s, message) ==
    LET command == lower(message[1])
        args == Tail(message)
    IN  IF command \notin Commands
        THEN [session |-> s, resp |-> unknown_command_response(command)]
        ELSE IF command = "/help"
        THEN [session |-> s,
              resp |-> web_response(200, "", << << "Available commands:" >> >>,
                                    s.session_id, FALSE)]
        ELSE IF command = "/clear"
        THEN [session |-> clear_context(s),
              resp |-> web_response(200, "", << << "Chat history cleared." >> >>,
                                    s.session_id, FALSE)]
        ELSE IF args = << >>
        THEN \* self.commands['/set_index'] / ['/set_model'] : KeyError,
             \* caught by the except Exception of chat()
             [session |-> s,
              resp |-> web_response(500, "An unexpected error occurred", << >>,
                                    None, FALSE)]
        ELSE IF command = "/index"
        THEN [session |-> handle_set_index(s, args),
              resp |-> web_response(200, "", << << "index set" >> >>,
                                    s.session_id, FALSE)]
        ELSE [session |-> handle_set_model(s, args),
              resp |-> web_response(200, "", << << "model set" >> >>,
                                    s.session_id, FALSE)]

\* web_chat's except APIError storing the user message before it answers
session_on_api_error_appends(s, message, max_size) ==
    update_chat_context(s, "user", message, max_size)

\* except APIError: the 503 answer is returned before any
\* update_chat_context call, the session stays as it is
session_on_api_error(s, message, max_size) == s

\* POST /api/chat of the Web Frontend
web_chat(message) ==
    /\ before_request
    /\ UNCHANGED << chatVars, edgeVars, configVars, cliVars, qryVars >>
    /\ issued' = issued_after(session, now, issued)
    /\ webReq' = WebRequest("chat", message)
    /\ LET s == _ensure_valid_session(session, now, issued)
       IN  IF message = << >>
           THEN /\ session' = s
                /\ backend' = NoCall
                /\ webResp' = web_response(400, "Message is required", << >>,
                                           None, FALSE)
           ELSE IF message[1] \in SlashWords
           THEN /\ session' = handle_command(s, message).session
                /\ backend' = NoCall
                /\ webResp' = handle_command(s, message).resp
           ELSE IF Config_raises(webEnv)
           THEN \* ValueError, caught by the except Exception of chat()
                /\ session' = s
                /\ backend' = NoCall
                /\ webResp' = web_response(500, "An unexpected error occurred",
                                           << >>, None, FALSE)
           ELSE \E outcome \in BackendOutcomes, answered \in ReplyLists :
                  LET payload == APIClient_query(message, get_chat_context(s),
                                                 s.es_index, s.model_name)
                      replies == IF outcome = "no_result"
                                 THEN NoResponseReceived ELSE answered
                      max_size == webEnv.max_context_size
                  IN  /\ outcome # "ok" => answered = << >>
                      /\ Len(get_chat_context(s)) + 1 + Len(replies) <= MaxStored
                      /\ backend' = Call(payload, outcome, answered)
                      /\ IF outcome = "api_error"
                         THEN /\ session' = session_on_api_error(s, message,
                                                                  max_size)
                              /\ webResp' = web_response(503,
                                     "Failed to get response from API service",
                                     << >>, None, TRUE)
                         ELSE IF outcome = "null_result"
                         THEN \* None.get("llm", {}) : AttributeError
                              /\ session' = s
                              /\ webResp' = web_response(500,
                                     "An unexpected error occurred", << >>, None,
                                     TRUE)
                         ELSE /\ session' = update_with_replies(
                                     update_chat_context(s, "user", message,
                                                         max_size),
                                     replies, max_size)
                              /\ webResp' = web_response(200, "", replies,
                                                         s.session_id, TRUE)
    /\ UNCHANGED << now, webEnv >>

\* request.json.get('size', 10)
DefaultSize == 10

\* the size field of a POST /api/context-size body: missing, an integer, a
\* text that is no number, or null
SizeFields ==
    {[kind |-> "absent", value |-> 0], [kind |-> "text", value |-> 0],
     [kind |-> "null", value |-> 0]}
    \cup [kind : {"int"}, value : 0..MaxContextSize]

\* the session update of update_context_size: the context cut to its last
\* new_size entries
update_context_size(s, new_size) ==
    [s EXCEPT !.context =
        Some(IF Len(get_chat_context(s)) > new_size
             THEN slice_from(get_chat_context(s), 0 - new_size)
             ELSE get_chat_context(s))]

\* POST /api/context-size
web_context_size(size) ==
    /\ before_request
    /\ UNCHANGED << chatVars, edgeVars, configVars, cliVars, qryVars >>
    /\ issued' = issued_after(session, now, issued)
    /\ webReq' = [route |-> "context-size", message |-> << >>,
                  size |-> Some(size)]
    /\ backend' = NoCall
    /\ LET s == _ensure_valid_session(session, now, issued)
           new_size == IF size.kind = "absent" THEN DefaultSize ELSE size.value
       IN  IF size.kind = "text"
           THEN \* int(...) raises ValueError
                /\ session' = s
                /\ webResp' = web_response(400, "Invalid context size", << >>,
                                           None, FALSE)
           ELSE IF size.kind = "null"
           THEN \* int(None) raises TypeError, which the handler does not catch
                /\ session' = s
                /\ webResp' = web_response(500, "Internal server error", << >>,
                                           None, FALSE)
           ELSE IF new_size < 1
           THEN /\ session' = s
                /\ webResp' = web_response(400, "Context size must be positive",
                                           << >>, None, FALSE)
           ELSE /\ session' = update_context_size(s, new_size)
                /\ webResp' = web_response(200, "", << >>, None, FALSE)
    /\ UNCHANGED << now, webEnv >>

\* time passes between requests
web_clock ==
    /\ now + HourStep <= MaxNow
    /\ UNCHANGED << chatVars, edgeVars, configVars, cliVars, qryVars >>
    /\ now' = now + HourStep
    /\ UNCHANGED << session, issued, arrived, validated, webReq, webResp,
                    webEnv, backend >>

WebNext ==
    \/ web_index
    \/ web_clear
    \/ \E message \in WebMessages : web_chat(message)
    \/ \E size \in SizeFields : web_context_size(size)
    \/ web_clock

\* ------------------------------------------------------------------------
\* Health endpoints
\* ------------------------------------------------------------------------
\* no health request yet
NoHealth ==
    [status |-> 0, body |-> "none", ollama |-> TRUE, es |-> TRUE,
     call |-> "none"]

\* a health response, with the state of the generation server and of the
\* search engine at the time of the request, and the outcome of the backend
\* call when one was made
health_response(status, body, call) ==
    [status |-> status, body |-> body, ollama |-> ollama_up, es |-> es_up,
     call |-> call]

\* a health check that probes the generation server and the search engine
health_status_probing(ollama, es) ==
    IF ollama /\ es THEN [status |-> 200, body |-> "healthy"]
    ELSE [status |-> 503, body |-> "unhealthy"]

\* jsonify({..., "status": "healthy", ...}): the handlers read neither the
\* generation server nor the search engine
health_status(ollama, es) == [status |-> 200, body |-> "healthy"]

\* GET / and GET /health of the Chat API Service
health_check ==
    /\ UNCHANGED << chatVars, webVars, configVars, cliVars, qryVars >>
    /\ apiHealth' = health_response(health_status(ollama_up, es_up).status,
                                    health_status(ollama_up, es_up).body,
                                    "none")
    /\ UNCHANGED << lreq, ollama_up, es_up, legacyHealth, localHealth >>

\* GET /health of the legacy service
legacy_health_check ==
    /\ UNCHANGED << chatVars, webVars, configVars, cliVars, qryVars >>
    /\ legacyHealth' = health_response(health_status(ollama_up, es_up).status,
                                       health_status(ollama_up, es_up).body,
                                       "none")
    /\ UNCHANGED << lreq, ollama_up, es_up, apiHealth, localHealth >>

\* what client.health_check (GET /api/health on the backend) does: "ok", or
\* an APIError from a ConnectionError, a Timeout or another RequestException
\* (an HTTP error status among them)
HealthCalls == {"ok", "connection_error", "timeout", "request_error"}

\* the service behind the clients' base_url: the legacy service, the Chat
\* API Service, a server of another origin that answers GET /api/health,
\* or nothing that answers
BackendKinds == {"legacy", "api", "other", "down"}

\* the GET routes of a service
get_routes(kind) ==
    IF kind = "legacy" THEN {"/health"}
    ELSE IF kind = "api" THEN {"/", "/health"}
    ELSE IF kind = "other" THEN {"/api/health"}
    ELSE {}

\* the answer of a running service to GET path: its health handler, or the
\* 404 of a path without a route
http_get(kind, path) ==
    IF path \in get_routes(kind)
    THEN [status |-> 200, body |-> "healthy"]
    ELSE [status |-> 404, body |-> ""]

\* the endpoint both clients' health_check requests
HealthPath == "/api/health"

\* the outcomes client.health_check can have against a backend:
\* raise_for_status() turns the 404 into a request error
health_calls(kind) ==
    IF kind = "down" THEN {"connection_error", "timeout"}
    ELSE IF http_get(kind, HealthPath).status >= 400 THEN {"request_error"}
    ELSE {"ok"}

\* the status local_health answers with
local_health_status(e, call) ==
    IF Config_raises(e) THEN [status |-> 503, body |-> "unhealthy"]
    ELSE IF call # "ok" THEN [status |-> 503, body |-> "unhealthy"]
    ELSE [status |-> 200, body |-> "healthy"]

\* GET /api/local-health of the Web Frontend
local_health(call) ==
    /\ call \in health_calls(served)
    /\ before_request
    /\ UNCHANGED << chatVars, configVars, cliVars, qryVars >>
    /\ session' = _ensure_valid_session(session, now, issued)
    /\ issued' = issued_after(session, now, issued)
    /\ webReq' = WebRequest("local-health", << >>)
    /\ webResp' = web_response(local_health_status(webEnv, call).status, "",
                               << >>, None, FALSE)
    /\ backend' = NoCall
    /\ localHealth' = health_response(local_health_status(webEnv, call).status,
                                      local_health_status(webEnv, call).body,
                                      IF Config_raises(webEnv) THEN "none"
                                      ELSE call)
    /\ UNCHANGED << now, webEnv >>
    /\ UNCHANGED << lreq, ollama_up, es_up, apiHealth, legacyHealth >>

\* the generation server or the search engine goes down or comes back
downstream_change ==
    /\ UNCHANGED << chatVars, webVars, configVars, cliVars, qryVars >>
    /\ \E o \in BOOLEAN, e \in BOOLEAN :
         /\ << o, e >> # << ollama_up, es_up >>
         /\ ollama_up' = o
         /\ es_up' = e
    /\ UNCHANGED << lreq, apiHealth, legacyHealth, localHealth >>

\* ------------------------------------------------------------------------
\* Pipeline configuration: create_pipeline_config, in the variant of main.py
\* and in the variant of api/pipeline_config.py (the provider and the
\* Mirostat blocks; the other parameters are read independently of them)
\* ------------------------------------------------------------------------
\* the environment variables the two blocks read; a variable is None when
\* unset and Some(text) when set
OsEnvs ==
    [PROVIDER : {None, Some(""), Some("hf"), Some("HF"), Some("ollama")},
     HF_API_KEY : {None, Some(""), Some("key")},
     OLLAMA_URL : {None, Some(""), Some("url")},
     MIROSTAT : {None, Some(""), Some("abc"), Some("0.1"), Some("1")},
     MIROSTAT_ETA : {None, Some("abc"), Some("0.1")},
     MIROSTAT_TAU : {None, Some("5.0")}]

\* os.getenv(name, default)
getenv(value, default) == IF value = None THEN default ELSE value[1]

\* the texts int() accepts, and the texts float() accepts
IntTexts == {"1"}

FloatTexts == IntTexts \cup {"0.1", "5.0"}

\* converter(text): raised for ValueError, else the number (kept as its text)
convert(converter, text) ==
    IF text \in (IF converter = "int" THEN IntTexts ELSE FloatTexts)
    THEN [raised |-> FALSE, value |-> Some(text)]
    ELSE [raised |-> TRUE, value |-> None]

\* get_env_param(param_name, converter, default) on the variable's value
get_env_param(value, converter, default) ==
    IF value = None THEN None
    ELSE LET text == IF default # None /\ value[1] = ""
                     THEN default[1] ELSE value[1]
         IN  IF convert(converter, text).raised THEN None
             ELSE convert(converter, text).value

\* a key of config_params: absent, or present with a value (which may be None)
Absent == << >>

Present(v) == << v >>

\* ModelProvider.HUGGINGFACE if PROVIDER.lower() == "hf" else OLLAMA
provider_of(e) ==
    IF lower(getenv(e.PROVIDER, "ollama")) = "hf" THEN "huggingface"
    ELSE "ollama"

\* the provider block of main.py setting ollama_url whatever the provider
provider_params_both(e) ==
    [provider |-> provider_of(e),
     hf_api_key |-> IF provider_of(e) = "huggingface" /\ e.HF_API_KEY # None
                    THEN Present(e.HF_API_KEY) ELSE Absent,
     ollama_url |-> IF e.OLLAMA_URL # None
                    THEN Present(e.OLLAMA_URL) ELSE Absent]

\* main.py: the provider and its credential
provider_params(e) ==
    [provider |-> provider_of(e),
     hf_api_key |-> IF provider_of(e) = "huggingface" /\ e.HF_API_KEY # None
                    THEN Present(e.HF_API_KEY) ELSE Absent,
     ollama_url |-> IF provider_of(e) # "huggingface" /\ e.OLLAMA_URL # None
                    THEN Present(e.OLLAMA_URL) ELSE Absent]

\* api/pipeline_config.py: the provider and its credential
api_provider_params(e) ==
    [provider |-> provider_of(e),
     hf_api_key |-> IF provider_of(e) = "huggingface"
                    THEN Present(e.HF_API_KEY) ELSE Absent,
     ollama_url |-> IF provider_of(e) # "huggingface" /\ TruthyWord(e.OLLAMA_URL)
                    THEN Present(e.OLLAMA_URL) ELSE Absent]

\* the Mirostat block reading eta and tau outside the test of mirostat
mirostat_params_unguarded(e) ==
    LET mirostat == get_env_param(e.MIROSTAT, "int", None)
        eta == get_env_param(e.MIROSTAT_ETA, "float", None)
        tau == get_env_param(e.MIROSTAT_TAU, "float", None)
    IN  [mirostat |-> IF mirostat # None THEN Present(mirostat) ELSE Absent,
         mirostat_eta |-> IF eta # None THEN Present(eta) ELSE Absent,
         mirostat_tau |-> IF tau # None THEN Present(tau) ELSE Absent]

\* the Mirostat block, the same in both variants
mirostat_params(e) ==
    LET mirostat == get_env_param(e.MIROSTAT, "int", None)
        eta == get_env_param(e.MIROSTAT_ETA, "float", None)
        tau == get_env_param(e.MIROSTAT_TAU, "float", None)
    IN  [mirostat |-> IF mirostat # None THEN Present(mirostat) ELSE Absent,
         mirostat_eta |-> IF mirostat # None /\ eta # None
                          THEN Present(eta) ELSE Absent,
         mirostat_tau |-> IF mirostat # None /\ tau # None
                          THEN Present(tau) ELSE Absent]

NoParams ==
    [provider |-> "none", hf_api_key |-> Absent, ollama_url |-> Absent,
     mirostat |-> Absent, mirostat_eta |-> Absent, mirostat_tau |-> Absent]

\* the config_params of a variant under an environment
config_params(variant, e) ==
    LET p == IF variant = "main" THEN provider_params(e)
             ELSE api_provider_params(e)
        m == mirostat_params(e)
    IN  [provider |-> p.provider, hf_api_key |-> p.hf_api_key,
         ollama_url |-> p.ollama_url, mirostat |-> m.mirostat,
         mirostat_eta |-> m.mirostat_eta, mirostat_tau |-> m.mirostat_tau]

\* the key holds a non-empty value
populated(slot) == slot # Absent /\ slot[1] # None /\ slot[1][1] # ""

\* QueryPipelineConfig(**config_params): the configuration model keeps the
\* credential of the selected provider populated, and refuses parameters
\* without it
QueryPipelineConfig_raises(params) ==
    IF params.provider = "huggingface" THEN ~populated(params.hf_api_key)
    ELSE ~populated(params.ollama_url)

NoCfgCall == [variant |-> "none", raised |-> FALSE]

\* create_pipeline_config of main.py
create_pipeline_config ==
    /\ UNCHANGED << chatVars, webVars, edgeVars, cliVars, qryVars >>
    /\ cfgCall' = [variant |-> "main",
                   raised |-> QueryPipelineConfig_raises(
                                  config_params("main", osenv))]
    /\ cfgParams' = config_params("main", osenv)
    /\ UNCHANGED << osenv, flags, registered, setup >>

\* create_pipeline_config of api/pipeline_config.py
api_create_pipeline_config ==
    /\ UNCHANGED << chatVars, webVars, edgeVars, cliVars, qryVars >>
    /\ cfgCall' = [variant |-> "api",
                   raised |-> QueryPipelineConfig_raises(
                                  config_params("api", osenv))]
    /\ cfgParams' = config_params("api", osenv)
    /\ UNCHANGED << osenv, flags, registered, setup >>

\* ------------------------------------------------------------------------
\* Route composition: setup_all_routes
\* ------------------------------------------------------------------------
Flags ==
    [PROVIDER_IS_OLLAMA : BOOLEAN, ENABLE_OLLAMA_PROXY : BOOLEAN,
     BYPASS_OLLAMA_RAG : BOOLEAN]

\* the registration that raises: none, setup_ollama_routes,
\* register_chat_routes or register_health_routes
Failures == {"none", "proxy", "chat", "health"}

NotSetUp == [ended |-> "none", failed |-> "none"]

\* setup_all_routes registering the chat routes whatever BYPASS_OLLAMA_RAG is
setup_all_routes_no_bypass(f, fail) ==
    LET proxy == f.PROVIDER_IS_OLLAMA /\ f.ENABLE_OLLAMA_PROXY
        p == IF proxy THEN {"proxy"} ELSE {}
    IN  IF proxy /\ fail = "proxy"
        THEN [registered |-> {}, ended |-> "raised", failed |-> "proxy"]
        ELSE IF fail = "chat"
        THEN [registered |-> p, ended |-> "raised", failed |-> "chat"]
        ELSE IF fail = "health"
        THEN [registered |-> p \cup {"chat"}, ended |-> "raised",
              failed |-> "health"]
        ELSE [registered |-> p \cup {"chat"} \cup {"health"},
              ended |-> "returned", failed |-> "none"]

\* the route groups registered, how the call ended, and the registration
\* that raised
setup_all_routes(f, fail) ==
    LET proxy == f.PROVIDER_IS_OLLAMA /\ f.ENABLE_OLLAMA_PROXY
        chat == ~f.BYPASS_OLLAMA_RAG
        p == IF proxy THEN {"proxy"} ELSE {}
        c == IF chat THEN {"chat"} ELSE {}
    IN  IF proxy /\ fail = "proxy"
        THEN [registered |-> {}, ended |-> "raised", failed |-> "proxy"]
        ELSE IF chat /\ fail = "chat"
        THEN [registered |-> p, ended |-> "raised", failed |-> "chat"]
        ELSE IF fail = "health"
        THEN [registered |-> p \cup c, ended |-> "raised", failed |-> "health"]
        ELSE [registered |-> p \cup c \cup {"health"}, ended |-> "returned",
              failed |-> "none"]

\* the application starts: setup_all_routes(app) on a fresh app
app_setup(fail) ==
    /\ setup = NotSetUp
    /\ UNCHANGED << chatVars, webVars, edgeVars, cliVars, qryVars >>
    /\ registered' = setup_all_routes(flags, fail).registered
    /\ setup' = [ended |-> setup_all_routes(flags, fail).ended,
                 failed |-> setup_all_routes(flags, fail).failed]
    /\ UNCHANGED << osenv, cfgCall, cfgParams, flags >>

ConfigNext ==
    \/ create_pipeline_config
    \/ api_create_pipeline_config
    \/ \E fail \in Failures : app_setup(fail)

\* ------------------------------------------------------------------------
\* Terminal Chat Client
\* ------------------------------------------------------------------------
\* a deque: its items, oldest first, and its maxlen
Deque(items, maxlen) == [items |-> items, maxlen |-> maxlen]

\* deque(iterable, maxlen) keeping the first maxlen items
deque_oldest(items, maxlen) ==
    Deque(SubSeq(items, 1, Min(Len(items), maxlen)), maxlen)

\* deque(iterable, maxlen), maxlen >= 0: the items are appended one by one,
\* so the last maxlen of them stay
deque(items, maxlen) ==
    Deque(slice_from(items, IF Len(items) > maxlen THEN Len(items) - maxlen
                            ELSE 0),
          maxlen)

\* deque.append(x): with maxlen 0 nothing is stored; a full deque drops its
\* oldest item
deque_append(d, x) ==
    IF d.maxlen = 0 THEN d
    ELSE IF Len(d.items) = d.maxlen
    THEN Deque(Append(Tail(d.items), x), d.maxlen)
    ELSE Deque(Append(d.items, x), d.maxlen)

\* display_message: USER and ASSISTANT messages enter the conversation
\* window, SYSTEM and ERROR messages do not
display_message(d, type, content) ==
    IF type \in {"user", "chipper"}
    THEN deque_append(d, [role |-> type, content |-> content])
    ELSE d

RECURSIVE display_replies(_, _)
\* for reply in replies: display_message(Message(reply, ASSISTANT))
display_replies(d, replies) ==
    IF replies = << >> THEN d
    ELSE display_replies(display_message(d, "chipper", Head(replies)),
                         Tail(replies))

\* what the user types at the prompt
CliTexts == {"hello", "hi"}

CliCommands == {"/quit", "/QUIT", "/clear", "/history", "/help", "/foo"}

\* the sizes typed at the /context prompt
ContextPrompts == (0 - 1)..MaxContextSize

\* what client.query does: "ok" (HTTP 200, the result holds llm.replies),
\* "no_result" (HTTP 200 without a result), "null_result" (HTTP 200 with
\* result null, the answer of a failed query), "client_error"
\* (aiohttp.ClientError, raised again as APIError)
CliOutcomes == {"ok", "no_result", "null_result", "client_error"}

NoCliStep ==
    [op |-> "none", input |-> "", outcome |-> "none", shown |-> "none",
     size |-> 0, payload |-> << >>]

CliStep(op, input, outcome, shown, size, payload) ==
    [op |-> op, input |-> input, outcome |-> outcome, shown |-> shown,
     size |-> size, payload |-> payload]

\* run(): the health check before the interaction loop
run_health_check(call) ==
    /\ cliPc = "start"
    /\ UNCHANGED << chatVars, webVars, edgeVars, configVars, qryVars >>
    /\ call \in health_calls(served)
    /\ IF call = "ok" /\ http_get(served, HealthPath).body = "healthy"
       THEN /\ cliPc' = "loop"
            /\ cliLast' = CliStep("health", "", call, "welcome", 0, << >>)
       ELSE \* APIError, caught by the except Exception of run()
            /\ cliPc' = "ended"
            /\ cliLast' = CliStep("health", "", call, "fatal", 0, << >>)
    /\ UNCHANGED << served, window, cliMax >>

\* process_command for the commands other than /context
process_command(command) ==
    /\ cliPc = "loop"
    /\ UNCHANGED << chatVars, webVars, edgeVars, configVars, qryVars >>
    /\ cliPc' = IF lower(command) = "/quit" THEN "ended" ELSE "loop"
    /\ cliLast' = CliStep("command", command, "none",
                          IF lower(command) = "/quit" THEN "goodbye"
                          ELSE IF lower(command) = "/foo" THEN "unknown"
                          ELSE "system",
                          0, << >>)
    /\ UNCHANGED << served, window, cliMax >>

\* _cmd_context: the window is rebuilt with the new maxlen
_cmd_context(new_size) ==
    /\ cliPc = "loop"
    /\ UNCHANGED << chatVars, webVars, edgeVars, configVars, qryVars >>
    /\ IF new_size < 0
       THEN \* deque(..., maxlen=new_size) raises ValueError, caught by the
            \* except Exception of run()
            /\ cliPc' = "ended"
            /\ cliLast' = CliStep("context", "/context", "none", "fatal",
                                  new_size, << >>)
            /\ UNCHANGED << window, cliMax >>
       ELSE /\ cliPc' = "loop"
            /\ window' = deque(window.items, new_size)
            /\ cliMax' = new_size
            /\ cliLast' = CliStep("context", "/context", "none", "system",
                                  new_size, << >>)
    /\ UNCHANGED served

\* one chat turn of run(): the user message is displayed, the query sent
\* with the window, the replies displayed
chat_turn(user_input, outcome, answered) ==
    /\ cliPc = "loop"
    /\ UNCHANGED << chatVars, webVars, edgeVars, configVars, qryVars >>
    /\ outcome \notin {"ok"} => answered = << >>
    /\ LET shown_user == display_message(window, "user", user_input)
           replies == IF outcome = "no_result"
                      THEN << "No response received" >> ELSE answered
       IN  IF outcome = "client_error"
           THEN \* except APIError: the error is displayed, the loop goes on
                /\ cliPc' = "loop"
                /\ window' = shown_user
                /\ cliLast' = CliStep("turn", user_input, outcome, "error", 0,
                                      shown_user.items)
           ELSE IF outcome = "null_result"
           THEN \* None.get("llm", {}) : AttributeError, not caught by the
                \* turn, caught by the except Exception of run()
                /\ cliPc' = "ended"
                /\ window' = shown_user
                /\ cliLast' = CliStep("turn", user_input, outcome, "fatal", 0,
                                      shown_user.items)
           ELSE /\ cliPc' = "loop"
                /\ window' = display_replies(shown_user, replies)
                /\ cliLast' = CliStep("turn", user_input, outcome,
                                      IF replies = << >> THEN "user"
                                      ELSE "chipper",
                                      0, shown_user.items)
    /\ UNCHANGED << served, cliMax >>

\* the replies a query is answered with
CliReplies == {<< >>, << "r1" >>, << "r1", "r2" >>}

\* the health requests: to the services, and from the two clients
HealthNext ==
    \/ health_check
    \/ legacy_health_check
    \/ \E call \in HealthCalls : local_health(call)
    \/ downstream_change
    \/ \E call \in HealthCalls : run_health_check(call)

CliNext ==
    \/ \E call \in HealthCalls : run_health_check(call)
    \/ \E command \in CliCommands : process_command(command)
    \/ \E new_size \in ContextPrompts : _cmd_context(new_size)
    \/ \E user_input \in CliTexts, outcome \in CliOutcomes,
          answered \in CliReplies : chat_turn(user_input, outcome, answered)

\* ------------------------------------------------------------------------
\* RAGQueryPipeline: construction and run_query
\* ------------------------------------------------------------------------
\* the configuration: the service's ALLOW_MODEL_PULL setting
QueryConfigs == [allow_model_pull : BOOLEAN]

\* the answers of the search engine and of the generation server to the
\* requests of __init__
StoreAnswers == {"ok", "fail"}

HealthAnswers == {"ok", "fail"}

\* POST /api/show: 200 when the server has the model
ShowAnswers == {"present", "absent"}

PullAnswers == {"ok", "fail"}

\* _initialize_document_store: the store is opened and counted
_initialize_document_store(es) ==
    [raised |-> es # "ok", requests |-> << "count" >>]

\* _initialize_query: the health check, the show request, and the pull
\* request when the show request is not answered 200
_initialize_query(cfg, health, show, pull) ==
    IF health # "ok"
    THEN [raised |-> TRUE, requests |-> << "health" >>]
    ELSE IF show = "present"
    THEN [raised |-> FALSE, requests |-> << "health", "show" >>]
    ELSE [raised |-> pull # "ok", requests |-> << "health", "show", "pull" >>]

NoOrchestrator ==
    [state |-> "none", query_pipeline |-> FALSE, creates |-> 0, wired |-> 0,
     runs |-> 0, calls |-> 0, returned |-> 0]

NoQueryInit ==
    [es |-> "none", health |-> "none", show |-> "none", pull |-> "none",
     requests |-> << >>]

NoQueryCall == [op |-> "none", build |-> "none", run |-> "none",
                raised |-> FALSE]

\* RAGQueryPipeline.__init__
RAGQueryPipeline_construct(es, health, show, pull) ==
    /\ orch.state = "none"
    /\ UNCHANGED << chatVars, webVars, edgeVars, configVars, cliVars >>
    /\ LET store == _initialize_document_store(es)
           query == _initialize_query(qcfg, health, show, pull)
       IN  IF store.raised
           THEN /\ orch' = [orch EXCEPT !.state = "failed"]
                /\ qinit' = [es |-> es, health |-> "none", show |-> "none",
                             pull |-> "none", requests |-> store.requests]
           ELSE /\ orch' = [orch EXCEPT !.state = IF query.raised THEN "failed"
                                                  ELSE "ready"]
                /\ qinit' = [es |-> es, health |-> health,
                             show |-> IF Len(query.requests) >= 2 THEN show
                                      ELSE "none",
                             pull |-> IF Len(query.requests) >= 3 THEN pull
                                      ELSE "none",
                             requests |-> store.requests \o query.requests]
    /\ UNCHANGED << qcfg, qLast >>

\* what create_query_pipeline and query_pipeline.run do
BuildOutcomes == {"ok", "error"}

\* run_query calling create_query_pipeline on every call
run_query_rebuilds(o, build, run) ==
    LET created == [o EXCEPT !.calls = @ + 1, !.creates = @ + 1]
    IN  IF build # "ok"
        THEN [orch |-> created, raised |-> TRUE]
        ELSE LET built == [created EXCEPT !.query_pipeline = TRUE,
                                          !.wired = @ + 1]
                 ran == [built EXCEPT !.runs = @ + 1]
             IN  IF run = "ok"
                 THEN [orch |-> [ran EXCEPT !.returned = @ + 1],
                       raised |-> FALSE]
                 ELSE [orch |-> ran, raised |-> TRUE]

\* run_query: create_query_pipeline when query_pipeline is not set, then
\* one query_pipeline.run; both except clauses raise again
run_query(o, build, run) ==
    LET called == [o EXCEPT !.calls = @ + 1]
        created == IF o.query_pipeline THEN called
                   ELSE [called EXCEPT !.creates = @ + 1]
    IN  IF ~o.query_pipeline /\ build # "ok"
        THEN [orch |-> created, raised |-> TRUE]
        ELSE LET built == IF o.query_pipeline THEN created
                          ELSE [created EXCEPT !.query_pipeline = TRUE,
                                               !.wired = @ + 1]
                 ran == [built EXCEPT !.runs = @ + 1]
             IN  IF run = "ok"
                 THEN [orch |-> [ran EXCEPT !.returned = @ + 1],
                       raised |-> FALSE]
                 ELSE [orch |-> ran, raised |-> TRUE]

\* one run_query call on the instance
orchestrator_run_query(build, run) ==
    /\ orch.state = "ready"
    /\ orch.calls < MaxRuns
    /\ UNCHANGED << chatVars, webVars, edgeVars, configVars, cliVars >>
    /\ orch' = run_query(orch, build, run).orch
    /\ qLast' = [op |-> "run_query",
                 build |-> IF orch.query_pipeline THEN "none" ELSE build,
                 run |-> IF orch'.runs > orch.runs THEN run ELSE "none",
                 raised |-> run_query(orch, build, run).raised]
    /\ UNCHANGED << qcfg, qinit >>

QueryNext ==
    \/ \E es \in StoreAnswers, health \in HealthAnswers, show \in ShowAnswers,
          pull \in PullAnswers : RAGQueryPipeline_construct(es, health, show, pull)
    \/ \E build \in BuildOutcomes, run \in RunOutcomes :
          orchestrator_run_query(build, run)

\* ------------------------------------------------------------------------
\* Specifications
\* ------------------------------------------------------------------------
\* the Chat API Service and the legacy service started, the first under
\* some environment, no request yet; the rest untouched
ChatInit ==
    /\ env \in Envs
    /\ pc = "idle"
    /\ req = NoRequest
    /\ resp = NoResponse
    /\ work = NoWork
    /\ pcW = "none"
    /\ nstatus = 0
    /\ sent = << >>
    /\ result = None
    /\ q = << >>
    /\ pcG = "none"
    /\ emitted = << >>
    /\ waited = 0
    /\ idle = 0
    /\ hbSince = 0
    /\ hbTotal = 0
    /\ late = FALSE
    /\ session = EmptySession
    /\ now = 0
    /\ issued = 0
    /\ arrived = EmptySession
    /\ validated = EmptySession
    /\ webReq = NoWebRequest
    /\ webResp = NoWebResponse
    /\ webEnv = [api_key |-> Some("k"), max_context_size |-> MaxContextSize]
    /\ backend = NoCall
    /\ lreq = NoLegacyRequest
    /\ ollama_up = TRUE
    /\ es_up = TRUE
    /\ apiHealth = NoHealth
    /\ legacyHealth = NoHealth
    /\ localHealth = NoHealth
    /\ osenv = [PROVIDER |-> None, HF_API_KEY |-> None, OLLAMA_URL |-> None,
               MIROSTAT |-> None, MIROSTAT_ETA |-> None, MIROSTAT_TAU |-> None]
    /\ cfgCall = NoCfgCall
    /\ cfgParams = NoParams
    /\ flags = [PROVIDER_IS_OLLAMA |-> TRUE, ENABLE_OLLAMA_PROXY |-> FALSE,
               BYPASS_OLLAMA_RAG |-> FALSE]
    /\ registered = {}
    /\ setup = NotSetUp
    /\ served = "legacy"
    /\ cliPc = "start"
    /\ window = Deque(<< >>, MaxContextSize)
    /\ cliMax = MaxContextSize
    /\ cliLast = NoCliStep
    /\ qcfg = [allow_model_pull |-> TRUE]
    /\ orch = NoOrchestrator
    /\ qinit = NoQueryInit
    /\ qLast = NoQueryCall

\* one client request, to POST /api/chat of the Chat API Service or to POST
\* /api/query of the legacy service, followed to its end
SpecChat == ChatInit /\ [][ChatNext]_vars

\* the Chat API Service before a streaming request
StreamInit ==
    /\ env = [allow_model |-> TRUE, allow_index |-> TRUE, allow_pull |-> TRUE,
             require_api_key |-> None]
    /\ pc = "idle"
    /\ req = NoRequest
    /\ resp = NoResponse
    /\ work = NoWork
    /\ pcW = "none"
    /\ nstatus = 0
    /\ sent = << >>
    /\ result = None
    /\ q = << >>
    /\ pcG = "none"
    /\ emitted = << >>
    /\ waited = 0
    /\ idle = 0
    /\ hbSince = 0
    /\ hbTotal = 0
    /\ late = FALSE
    /\ session = EmptySession
    /\ now = 0
    /\ issued = 0
    /\ arrived = EmptySession
    /\ validated = EmptySession
    /\ webReq = NoWebRequest
    /\ webResp = NoWebResponse
    /\ webEnv = [api_key |-> Some("k"), max_context_size |-> MaxContextSize]
    /\ backend = NoCall
    /\ lreq = NoLegacyRequest
    /\ ollama_up = TRUE
    /\ es_up = TRUE
    /\ apiHealth = NoHealth
    /\ legacyHealth = NoHealth
    /\ localHealth = NoHealth
    /\ osenv = [PROVIDER |-> None, HF_API_KEY |-> None, OLLAMA_URL |-> None,
               MIROSTAT |-> None, MIROSTAT_ETA |-> None, MIROSTAT_TAU |-> None]
    /\ cfgCall = NoCfgCall
    /\ cfgParams = NoParams
    /\ flags = [PROVIDER_IS_OLLAMA |-> TRUE, ENABLE_OLLAMA_PROXY |-> FALSE,
               BYPASS_OLLAMA_RAG |-> FALSE]
    /\ registered = {}
    /\ setup = NotSetUp
    /\ served = "legacy"
    /\ cliPc = "start"
    /\ window = Deque(<< >>, MaxContextSize)
    /\ cliMax = MaxContextSize
    /\ cliLast = NoCliStep
    /\ qcfg = [allow_model_pull |-> TRUE]
    /\ orch = NoOrchestrator
    /\ qinit = NoQueryInit
    /\ qLast = NoQueryCall

\* the started thread runs until run_rag returns, and the server iterates
\* generate() until it ends or the client is gone
SpecStream ==
    /\ StreamInit
    /\ [][StreamNext]_vars
    /\ WF_vars(WorkerNext)
    /\ WF_vars(GenerateNext)

\* the Web Frontend started under some environment, the browser without a
\* cookie; the rest untouched
WebInit ==
    /\ env = [allow_model |-> TRUE, allow_index |-> TRUE, allow_pull |-> TRUE,
             require_api_key |-> None]
    /\ pc = "idle"
    /\ req = NoRequest
    /\ resp = NoResponse
    /\ work = NoWork
    /\ pcW = "none"
    /\ nstatus = 0
    /\ sent = << >>
    /\ result = None
    /\ q = << >>
    /\ pcG = "none"
    /\ emitted = << >>
    /\ waited = 0
    /\ idle = 0
    /\ hbSince = 0
    /\ hbTotal = 0
    /\ late = FALSE
    /\ session = EmptySession
    /\ now = 0
    /\ issued = 0
    /\ arrived = EmptySession
    /\ validated = EmptySession
    /\ webReq = NoWebRequest
    /\ webResp = NoWebResponse
    /\ webEnv \in WebEnvs
    /\ backend = NoCall
    /\ lreq = NoLegacyRequest
    /\ ollama_up = TRUE
    /\ es_up = TRUE
    /\ apiHealth = NoHealth
    /\ legacyHealth = NoHealth
    /\ localHealth = NoHealth
    /\ osenv = [PROVIDER |-> None, HF_API_KEY |-> None, OLLAMA_URL |-> None,
               MIROSTAT |-> None, MIROSTAT_ETA |-> None, MIROSTAT_TAU |-> None]
    /\ cfgCall = NoCfgCall
    /\ cfgParams = NoParams
    /\ flags = [PROVIDER_IS_OLLAMA |-> TRUE, ENABLE_OLLAMA_PROXY |-> FALSE,
               BYPASS_OLLAMA_RAG |-> FALSE]
    /\ registered = {}
    /\ setup = NotSetUp
    /\ served = "legacy"
    /\ cliPc = "start"
    /\ window = Deque(<< >>, MaxContextSize)
    /\ cliMax = MaxContextSize
    /\ cliLast = NoCliStep
    /\ qcfg = [allow_model_pull |-> TRUE]
    /\ orch = NoOrchestrator
    /\ qinit = NoQueryInit
    /\ qLast = NoQueryCall

\* the Web Frontend serving one browser
SpecWeb == WebInit /\ [][WebNext]_vars

\* the three services started, the Web Frontend under some environment
HealthInit ==
    /\ env = [allow_model |-> TRUE, allow_index |-> TRUE, allow_pull |-> TRUE,
             require_api_key |-> None]
    /\ pc = "idle"
    /\ req = NoRequest
    /\ resp = NoResponse
    /\ work = NoWork
    /\ pcW = "none"
    /\ nstatus = 0
    /\ sent = << >>
    /\ result = None
    /\ q = << >>
    /\ pcG = "none"
    /\ emitted = << >>
    /\ waited = 0
    /\ idle = 0
    /\ hbSince = 0
    /\ hbTotal = 0
    /\ late = FALSE
    /\ session = EmptySession
    /\ now = 0
    /\ issued = 0
    /\ arrived = EmptySession
    /\ validated = EmptySession
    /\ webReq = NoWebRequest
    /\ webResp = NoWebResponse
    /\ webEnv \in WebEnvs
    /\ backend = NoCall
    /\ lreq = NoLegacyRequest
    /\ ollama_up = TRUE
    /\ es_up = TRUE
    /\ apiHealth = NoHealth
    /\ legacyHealth = NoHealth
    /\ localHealth = NoHealth
    /\ osenv = [PROVIDER |-> None, HF_API_KEY |-> None, OLLAMA_URL |-> None,
               MIROSTAT |-> None, MIROSTAT_ETA |-> None, MIROSTAT_TAU |-> None]
    /\ cfgCall = NoCfgCall
    /\ cfgParams = NoParams
    /\ flags = [PROVIDER_IS_OLLAMA |-> TRUE, ENABLE_OLLAMA_PROXY |-> FALSE,
               BYPASS_OLLAMA_RAG |-> FALSE]
    /\ registered = {}
    /\ setup = NotSetUp
    /\ served \in BackendKinds
    /\ cliPc = "start"
    /\ window = Deque(<< >>, MaxContextSize)
    /\ cliMax = MaxContextSize
    /\ cliLast = NoCliStep
    /\ qcfg = [allow_model_pull |-> TRUE]
    /\ orch = NoOrchestrator
    /\ qinit = NoQueryInit
    /\ qLast = NoQueryCall

\* health requests to the three services while the generation server and
\* the search engine go up and down
SpecHealth == HealthInit /\ [][HealthNext]_vars

\* a process about to build its configuration and its routes, under some
\* environment and some route flags
ConfigInit ==
    /\ env = [allow_model |-> TRUE, allow_index |-> TRUE, allow_pull |-> TRUE,
             require_api_key |-> None]
    /\ pc = "idle"
    /\ req = NoRequest
    /\ resp = NoResponse
    /\ work = NoWork
    /\ pcW = "none"
    /\ nstatus = 0
    /\ sent = << >>
    /\ result = None
    /\ q = << >>
    /\ pcG = "none"
    /\ emitted = << >>
    /\ waited = 0
    /\ idle = 0
    /\ hbSince = 0
    /\ hbTotal = 0
    /\ late = FALSE
    /\ session = EmptySession
    /\ now = 0
    /\ issued = 0
    /\ arrived = EmptySession
    /\ validated = EmptySession
    /\ webReq = NoWebRequest
    /\ webResp = NoWebResponse
    /\ webEnv = [api_key |-> Some("k"), max_context_size |-> MaxContextSize]
    /\ backend = NoCall
    /\ lreq = NoLegacyRequest
    /\ ollama_up = TRUE
    /\ es_up = TRUE
    /\ apiHealth = NoHealth
    /\ legacyHealth = NoHealth
    /\ localHealth = NoHealth
    /\ osenv \in OsEnvs
    /\ cfgCall = NoCfgCall
    /\ cfgParams = NoParams
    /\ flags \in Flags
    /\ registered = {}
    /\ setup = NotSetUp
    /\ served = "legacy"
    /\ cliPc = "start"
    /\ window = Deque(<< >>, MaxContextSize)
    /\ cliMax = MaxContextSize
    /\ cliLast = NoCliStep
    /\ qcfg = [allow_model_pull |-> TRUE]
    /\ orch = NoOrchestrator
    /\ qinit = NoQueryInit
    /\ qLast = NoQueryCall

\* create_pipeline_config and setup_all_routes applied to their inputs
SpecConfig == ConfigInit /\ [][ConfigNext]_vars

\* the Terminal Chat Client constructed under some MAX_CONTEXT_SIZE and
\* pointed at some backend, run() not yet started
CliInit ==
    /\ env = [allow_model |-> TRUE, allow_index |-> TRUE, allow_pull |-> TRUE,
             require_api_key |-> None]
    /\ pc = "idle"
    /\ req = NoRequest
    /\ resp = NoResponse
    /\ work = NoWork
    /\ pcW = "none"
    /\ nstatus = 0
    /\ sent = << >>
    /\ result = None
    /\ q = << >>
    /\ pcG = "none"
    /\ emitted = << >>
    /\ waited = 0
    /\ idle = 0
    /\ hbSince = 0
    /\ hbTotal = 0
    /\ late = FALSE
    /\ session = EmptySession
    /\ now = 0
    /\ issued = 0
    /\ arrived = EmptySession
    /\ validated = EmptySession
    /\ webReq = NoWebRequest
    /\ webResp = NoWebResponse
    /\ webEnv = [api_key |-> Some("k"), max_context_size |-> MaxContextSize]
    /\ backend = NoCall
    /\ lreq = NoLegacyRequest
    /\ ollama_up = TRUE
    /\ es_up = TRUE
    /\ apiHealth = NoHealth
    /\ legacyHealth = NoHealth
    /\ localHealth = NoHealth
    /\ osenv = [PROVIDER |-> None, HF_API_KEY |-> None, OLLAMA_URL |-> None,
               MIROSTAT |-> None, MIROSTAT_ETA |-> None, MIROSTAT_TAU |-> None]
    /\ cfgCall = NoCfgCall
    /\ cfgParams = NoParams
    /\ flags = [PROVIDER_IS_OLLAMA |-> TRUE, ENABLE_OLLAMA_PROXY |-> FALSE,
               BYPASS_OLLAMA_RAG |-> FALSE]
    /\ registered = {}
    /\ setup = NotSetUp
    /\ served \in BackendKinds
    /\ cliPc = "start"
    /\ \E size \in 0..MaxContextSize :
         /\ window = Deque(<< >>, size)
         /\ cliMax = size
    /\ cliLast = NoCliStep
    /\ qcfg = [allow_model_pull |-> TRUE]
    /\ orch = NoOrchestrator
    /\ qinit = NoQueryInit
    /\ qLast = NoQueryCall

SpecCli == CliInit /\ [][CliNext]_vars

\* no RAGQueryPipeline constructed yet, under some configuration
QueryInit ==
    /\ env = [allow_model |-> TRUE, allow_index |-> TRUE, allow_pull |-> TRUE,
             require_api_key |-> None]
    /\ pc = "idle"
    /\ req = NoRequest
    /\ resp = NoResponse
    /\ work = NoWork
    /\ pcW = "none"
    /\ nstatus = 0
    /\ sent = << >>
    /\ result = None
    /\ q = << >>
    /\ pcG = "none"
    /\ emitted = << >>
    /\ waited = 0
    /\ idle = 0
    /\ hbSince = 0
    /\ hbTotal = 0
    /\ late = FALSE
    /\ session = EmptySession
    /\ now = 0
    /\ issued = 0
    /\ arrived = EmptySession
    /\ validated = EmptySession
    /\ webReq = NoWebRequest
    /\ webResp = NoWebResponse
    /\ webEnv = [api_key |-> Some("k"), max_context_size |-> MaxContextSize]
    /\ backend = NoCall
    /\ lreq = NoLegacyRequest
    /\ ollama_up = TRUE
    /\ es_up = TRUE
    /\ apiHealth = NoHealth
    /\ legacyHealth = NoHealth
    /\ localHealth = NoHealth
    /\ osenv = [PROVIDER |-> None, HF_API_KEY |-> None, OLLAMA_URL |-> None,
               MIROSTAT |-> None, MIROSTAT_ETA |-> None, MIROSTAT_TAU |-> None]
    /\ cfgCall = NoCfgCall
    /\ cfgParams = NoParams
    /\ flags = [PROVIDER_IS_OLLAMA |-> TRUE, ENABLE_OLLAMA_PROXY |-> FALSE,
               BYPASS_OLLAMA_RAG |-> FALSE]
    /\ registered = {}
    /\ setup = NotSetUp
    /\ served = "legacy"
    /\ cliPc = "start"
    /\ window = Deque(<< >>, MaxContextSize)
    /\ cliMax = MaxContextSize
    /\ cliLast = NoCliStep
    /\ qcfg \in QueryConfigs
    /\ orch = NoOrchestrator
    /\ qinit = NoQueryInit
    /\ qLast = NoQueryCall

SpecQuery == QueryInit /\ [][QueryNext]_vars

\* ------------------------------------------------------------------------
\* Streaming: delivery of chunks, end of stream, heartbeats
\* ------------------------------------------------------------------------
\* the reply text carried by a result
reply_of(res) == IF res.replies = << >> THEN << >> ELSE res.replies[1]

\* the frames the claim expects for the chunks sent and the result returned
ExpectedFrames ==
    [i \in 1..Len(sent) |-> chunk_frame(sent[i])]
        \o << final_frame(reply_of(result[1])) >>

\* C1: when the token callback was invoked with non-empty chunks c1..cn and
\* the query then completed, every frame being enqueued within the queue
\* timeout (and the model check having yielded no status event), the closed
\* stream holds exactly one chunk frame per chunk, in order, followed by the
\* one final frame with done:true and the result; no heartbeat, nothing else.
C1_ChunksThenFinal ==
    (/\ pc = "streaming"
     /\ pcW = "exit"
     /\ result # None
     /\ nstatus = 0
     /\ Len(sent) >= 1
     /\ \A i \in 1..Len(sent) : sent[i] # << >>
     /\ ~late
     /\ pcG = "closed")
    => emitted = ExpectedFrames

\* C2: a frame with done:true (the generic invalid-JSON error frame is one)
\* is the last frame the generator yields, and the generator is closed once
\* it has yielded one: nothing follows the first done:true frame.
C2_EndsOnFirstDone ==
    \A i \in 1..Len(emitted) :
        emitted[i].done = TRUE => (i = Len(emitted) /\ pcG = "closed")

\* a step in which generate() yields a heartbeat
HeartbeatStep ==
    /\ Len(emitted') = Len(emitted) + 1
    /\ emitted'[Len(emitted')] = heartbeat_frame

\* C3: while the queue stays empty the generator has yielded exactly one
\* heartbeat per elapsed timeout interval since it started or last dequeued
\* (the next one being due when the current q.get has waited the whole
\* timeout); a heartbeat leaves the stream open; and the stream closes only
\* in a step that dequeues a frame and after yielding a done:true frame.
C3_HeartbeatPerInterval ==
    /\ [](pcG = "wait" =>
            /\ waited <= QueueTimeout
            /\ hbSince = IF waited = QueueTimeout /\ idle > 0
                         THEN (idle \div QueueTimeout) - 1
                         ELSE idle \div QueueTimeout)
    /\ [][HeartbeatStep => (pcG' = "wait" /\ q = << >> /\ q' = << >>)]_vars
    /\ [][(pcG = "wait" /\ pcG' = "closed") =>
            /\ q # << >>
            /\ q' = Tail(q)
            /\ emitted'[Len(emitted')].done = TRUE
            /\ emitted'[Len(emitted')] # heartbeat_frame]_vars

\* two timeouts in a row have passed on an empty queue, the stream is open
C3_Witness == pcG = "wait" /\ hbSince = 2 /\ idle = 2 * QueueTimeout

\* ------------------------------------------------------------------------
\* POST /api/chat: errors
\* ------------------------------------------------------------------------
\* the request of the current state was made
Requested == pc \in {"responded", "streaming"}

\* the request fails a validation check of the claim: no JSON body, no
\* messages, or a last message without content
FailsValidation(r) ==
    \/ r.json # "object"
    \/ r.messages = << >>
    \/ r.messages[Len(r.messages)].content \in {None, Some(<< >>)}

\* the request fails a permission check: model or index set while the
\* corresponding flag is false
FailsPermission(r, e) ==
    \/ (r.model \notin {None, Some(<< >>)} /\ ~e.allow_model)
    \/ (r.index \notin {None, Some(<< >>)} /\ ~e.allow_index)

\* the request asks for the streaming mode
WantsStream(r) == r.stream # "false"

\* C4: a streaming request that passed validation is answered by the SSE
\* stream (never an HTTP error status), and when the worker has ended on a
\* backend error the last frame it enqueued is a done:true frame with an
\* error message.
C4_StreamErrorsAsFrames ==
    (Requested /\ ~FailsValidation(req) /\ ~FailsPermission(req, env)
               /\ WantsStream(req))
    => /\ resp.kind = "sse"
       /\ resp.status = 200
       /\ (pcW = "exit" /\ result = None /\ pcG = "wait")
            => (q # << >> /\ q[Len(q)].done = TRUE /\ q[Len(q)].key = "chunk")

\* C5: a request that fails a validation or permission check is rejected
\* before any backend work: no pipeline config built, no orchestrator
\* constructed, no worker thread started, no search-engine or
\* generation-server call made, no worker or generator running.
C5_RejectedBeforeBackend ==
    (Requested /\ (FailsValidation(req) \/ FailsPermission(req, env)))
    => /\ work = NoWork
       /\ pcW = "none"
       /\ pcG = "none"
       /\ q = << >>
       /\ resp.kind = "error"

\* a streaming request with a model override was rejected while
\* ALLOW_MODEL_CHANGE is false
C5_Witness ==
    /\ pc = "responded"
    /\ ~FailsValidation(req)
    /\ req.model = Some(<< "n" >>)
    /\ req.stream = "true"
    /\ ~env.allow_model
    /\ resp.kind = "error"

\* C6: an otherwise valid request with a non-empty model while
\* ALLOW_MODEL_CHANGE is false, or a non-empty options.index while
\* ALLOW_INDEX_CHANGE is false, is answered with HTTP 403.
C6_PermissionIs403 ==
    (Requested /\ ~FailsValidation(req) /\ FailsPermission(req, env))
    => resp.status = 403

\* C7: a request with a missing or empty JSON body, an empty or missing
\* messages list, or a last message with empty or missing content is
\* answered with HTTP 400.
C7_ValidationIs400 ==
    (Requested /\ FailsValidation(req)) => resp.status = 400

\* ------------------------------------------------------------------------
\* POST /api/chat: the non-streaming mode
\* ------------------------------------------------------------------------
\* the request was valid, permitted and non-streaming
StandardRequest ==
    /\ Requested
    /\ ~FailsValidation(req)
    /\ ~FailsPermission(req, env)
    /\ ~WantsStream(req)

\* the request's messages without the last one, the query
AllButLast(ms) == [i \in 1..(Len(ms) - 1) |-> ms[i]]

\* C8: a non-streaming request whose query succeeded with a reply r is
\* answered HTTP 200 with success:true, the result, and as messages the
\* conversation (the request's messages before the query) followed by
\* exactly one assistant message with content r.
C8_StandardSuccess ==
    (StandardRequest /\ result # None /\ result[1].replies # << >>)
    => /\ resp.status = 200
       /\ resp.kind = "json"
       /\ resp.success = TRUE
       /\ resp.result = result
       /\ resp.messages =
            AllButLast(req.messages)
                \o << [role |-> "assistant", content |-> Some(result[1].replies[1])] >>

\* a two-message request answered with its first message and the assistant's
C8_Witness ==
    /\ StandardRequest
    /\ Len(req.messages) = 2
    /\ result = Some([replies |-> << Hi >>])
    /\ Len(resp.messages) = 2
    /\ resp.messages[2].role = "assistant"

\* C9: when the backend fails during a non-streaming request, at the
\* orchestrator's construction or during run_query, the answer is HTTP 200
\* with success:false, no result and the conversation without an assistant
\* message.
C9_StandardFailureIs200 ==
    (StandardRequest /\ result = None)
    => /\ resp.status = 200
       /\ resp.kind = "json"
       /\ resp.success = FALSE
       /\ resp.result = None
       /\ resp.messages = AllButLast(req.messages)

\* ------------------------------------------------------------------------
\* Web Frontend: session expiry
\* ------------------------------------------------------------------------
\* the session has no session_id, or was created more than 24 hours ago
MustBeReplaced(s, t) ==
    \/ s.session_id = None
    \/ (s.created_at # None /\ t - (s.created_at[1].date * 24 + s.created_at[1].time) > 24)

\* C10: on a request, a session without session_id or created more than 24
\* hours ago is replaced before the route handler runs (new session_id other
\* than the old one, created_at now, empty context, no es_index or
\* model_name override); a younger session comes to the handler as it was,
\* and the handler leaves its session_id and created_at alone.
C10_SessionReplacedOnExpiry ==
    [][now' = now =>
        /\ arrived' = session
        /\ IF MustBeReplaced(session, now)
           THEN /\ validated'.session_id # None
                /\ validated'.session_id # session.session_id
                /\ validated'.created_at = Some(isoformat(now))
                /\ fromisoformat(validated'.created_at[1]) = now
                /\ validated'.context = Some(<< >>)
                /\ validated'.es_index = None
                /\ validated'.model_name = None
           ELSE validated' = session
        /\ session'.session_id = validated'.session_id
        /\ session'.created_at = validated'.created_at]_vars

\* a session with context and both overrides was replaced after expiry
C10_Witness ==
    /\ arrived.session_id # None
    /\ arrived.context # Some(<< >>)
    /\ arrived.es_index # None
    /\ arrived.model_name # None
    /\ validated.session_id # arrived.session_id
    /\ validated.context = Some(<< >>)
    /\ validated.es_index = None

\* ------------------------------------------------------------------------
\* Web Frontend: the /index command
\* ------------------------------------------------------------------------
\* the step is a request (the clock does not move)
WebRequestStep == now' = now /\ webReq'.route # "none"

\* the message is the /index command with a name
IsIndexCommand(m) == Len(m) >= 2 /\ lower(m[1]) = "/index"

\* the message is not empty and does not start with '/'
IsQuery(m) == m # << >> /\ m[1] \notin SlashWords

\* C11: a chat message "/index <name>" sets the session's es_index override
\* to <name> and makes no backend call; every non-command message (of a
\* frontend whose Config loads) is forwarded to the backend with the
\* session's es_index override, which stays what the last /index command
\* made it until another /index command or the replacement of the session.
C11_IndexCommand ==
    /\ [][(WebRequestStep /\ webReq'.route = "chat") =>
            /\ IsIndexCommand(webReq'.message) =>
                 /\ session'.es_index = Some(webReq'.message[2])
                 /\ backend' = NoCall
                 /\ webResp'.status = 200
            /\ (IsQuery(webReq'.message) /\ ~Config_raises(webEnv)) =>
                 /\ backend' # NoCall
                 /\ backend'[1].payload.query = webReq'.message
                 /\ backend'[1].payload.es_index = validated'.es_index
                 /\ session'.es_index = validated'.es_index]_vars
    /\ [][(WebRequestStep /\ session'.es_index # session.es_index) =>
            \/ (webReq'.route = "chat" /\ IsIndexCommand(webReq'.message))
            \/ validated'.session_id # session.session_id]_vars

\* after "/index n" and other requests in between, a message was forwarded
\* with es_index n
C11_Witness ==
    /\ webReq.route = "chat"
    /\ webReq.message = << "hello" >>
    /\ session.es_index = Some("n")
    /\ Len(get_chat_context(session)) >= 2
    /\ backend # NoCall
    /\ backend[1].payload.es_index = Some("n")

\* ------------------------------------------------------------------------
\* Web Frontend: the bounded context
\* ------------------------------------------------------------------------
\* the last n entries of a context
KeepLast(c, n) ==
    IF Len(c) > n THEN [i \in 1..n |-> c[Len(c) - n + i]] ELSE c

\* the step is a chat turn the backend answered with a list of replies
AnsweredTurn ==
    /\ WebRequestStep
    /\ webReq'.route = "chat"
    /\ backend' # NoCall
    /\ backend'[1].outcome = "ok"

\* C12: after update_chat_context(role, content, max_size) the stored
\* context holds at most max_size entries; when it held max_size or more
\* before the append, it holds exactly max_size, the most recent ones in
\* their order with the new entry last. Stated on a chat turn answered with
\* no reply, which makes exactly one update_chat_context call, and with the
\* bound alone on every answered turn.
C12_ContextTrimmed ==
    [][AnsweredTurn =>
        LET max_size == webEnv.max_context_size
            before == get_chat_context(validated')
            after == get_chat_context(session')
            entry == [role |-> "user", content |-> webReq'.message]
        IN  /\ Len(after) <= max_size
            /\ (backend'[1].replies = << >> /\ Len(before) >= max_size) =>
                 /\ Len(after) = max_size
                 /\ after = KeepLast(Append(before, entry), max_size)]_vars

\* ------------------------------------------------------------------------
\* Web Frontend: POST /api/context-size
\* ------------------------------------------------------------------------
\* the size an accepted POST /api/context-size asked for
AcceptedSize(r) ==
    IF r.size[1].kind = "absent" THEN 10 ELSE r.size[1].value

\* C13: an accepted POST /api/context-size with size n cuts the context to
\* its most recent n entries, and a successful chat turn that follows in the
\* same session leaves at most n entries stored (stated for a frontend whose
\* MAX_CONTEXT_SIZE is positive).
C13_ContextSizeResized ==
    /\ [][(WebRequestStep /\ webReq'.route = "context-size"
             /\ webResp'.status = 200) =>
            get_chat_context(session') =
                KeepLast(get_chat_context(validated'), AcceptedSize(webReq'))]_vars
    /\ [][(webReq.route = "context-size" /\ webResp.status = 200
             /\ webEnv.max_context_size >= 1
             /\ WebRequestStep /\ webReq'.route = "chat"
             /\ webResp'.status = 200 /\ backend' # NoCall
             /\ validated'.session_id = session.session_id) =>
            Len(get_chat_context(session')) <= AcceptedSize(webReq)]_vars

\* ------------------------------------------------------------------------
\* Web Frontend: a chat turn
\* ------------------------------------------------------------------------
RECURSIVE AppendTrimmed(_, _, _)
\* the entries appended one at a time, the context kept to its last n
\* entries after each
AppendTrimmed(c, entries, n) ==
    IF entries = << >> THEN c
    ELSE AppendTrimmed(KeepLast(Append(c, Head(entries)), n), Tail(entries), n)

\* the context entries of the replies
ReplyEntries(replies) ==
    [i \in 1..Len(replies) |-> [role |-> "chipper", content |-> replies[i]]]

\* C19: a non-command message the backend answers with replies r1..rn
\* extends the session context by the user message followed by r1..rn in
\* that order, the context kept to the max context size after each append,
\* and the response is 200 with the replies and the session's session_id.
C19_ChatTurn ==
    [][AnsweredTurn =>
        LET entries == << [role |-> "user", content |-> webReq'.message] >>
                       \o ReplyEntries(backend'[1].replies)
        IN  /\ get_chat_context(session') =
                 AppendTrimmed(get_chat_context(validated'), entries,
                               webEnv.max_context_size)
            /\ webResp'.status = 200
            /\ webResp'.replies = backend'[1].replies
            /\ webResp'.session_id = session'.session_id
            /\ session'.session_id # None]_vars

\* ------------------------------------------------------------------------
\* Health endpoints
\* ------------------------------------------------------------------------
\* C14: the health endpoints of the Chat API Service and of the legacy
\* service answer 200 "healthy" in every state of the generation server and
\* of the search engine, and the Web Frontend's local-health answers 503
\* "unhealthy" whenever its backend health call fails.
C14_HealthEndpoints ==
    /\ apiHealth # NoHealth =>
         (apiHealth.status = 200 /\ apiHealth.body = "healthy")
    /\ legacyHealth # NoHealth =>
         (legacyHealth.status = 200 /\ legacyHealth.body = "healthy")
    /\ (localHealth # NoHealth /\ localHealth.call \notin {"none", "ok"}) =>
         (localHealth.status = 503 /\ localHealth.body = "unhealthy")

\* both services answered healthy while the generation server and the
\* search engine were down, and local-health answered after a failed call
C14_Witness ==
    /\ apiHealth.status = 200
    /\ ~apiHealth.ollama
    /\ ~apiHealth.es
    /\ legacyHealth.status = 200
    /\ ~legacyHealth.ollama
    /\ ~legacyHealth.es
    /\ localHealth.call = "timeout"
    /\ localHealth.status = 503

\* ------------------------------------------------------------------------
\* Pipeline configuration
\* ------------------------------------------------------------------------
\* the key holds a non-empty value
Populated(slot) == slot # Absent /\ slot[1] # None /\ slot[1][1] # ""

\* the provider's name in PROVIDER is "hf", in any case
IsHf(e) == e.PROVIDER \in {Some("hf"), Some("HF")}

\* create_pipeline_config was called
Called == cfgCall.variant # "none"

\* a configuration was built
Built == Called /\ ~cfgCall.raised

C16_MirostatGuard ==
    (Called /\ (osenv.MIROSTAT = None \/ osenv.MIROSTAT[1] \notin {"1"})) =>
        /\ cfgParams.mirostat = Absent
        /\ cfgParams.mirostat_eta = Absent
        /\ cfgParams.mirostat_tau = Absent

\* MIROSTAT is a decimal fraction, MIROSTAT_ETA and MIROSTAT_TAU are set,
\* and the configuration holds none of the three
C16_Witness ==
    /\ Built
    /\ osenv.OLLAMA_URL = Some("url")
    /\ osenv.MIROSTAT = Some("0.1")
    /\ osenv.MIROSTAT_ETA = Some("0.1")
    /\ osenv.MIROSTAT_TAU = Some("5.0")
    /\ cfgParams.mirostat_eta = Absent
    /\ cfgParams.mirostat_tau = Absent

\* ------------------------------------------------------------------------
\* Route composition
\* ------------------------------------------------------------------------
\* C18: setup_all_routes registers the proxy routes iff PROVIDER_IS_OLLAMA
\* and ENABLE_OLLAMA_PROXY, the chat routes iff not BYPASS_OLLAMA_RAG and the
\* health routes always; when a registration raises, the call raises.
C18_RouteGroups ==
    /\ setup.ended = "returned" =>
         /\ "proxy" \in registered <=>
              (flags.PROVIDER_IS_OLLAMA /\ flags.ENABLE_OLLAMA_PROXY)
         /\ "chat" \in registered <=> ~flags.BYPASS_OLLAMA_RAG
         /\ "health" \in registered
         /\ setup.failed = "none"
    /\ setup.failed # "none" => setup.ended = "raised"
    /\ setup.ended = "raised" =>
         /\ setup.failed # "none"
         /\ setup.failed \notin registered

\* with the proxy enabled and RAG bypassed, the proxy and the health routes
\* were registered and the chat routes were not
C18_Witness ==
    /\ flags.PROVIDER_IS_OLLAMA
    /\ flags.ENABLE_OLLAMA_PROXY
    /\ flags.BYPASS_OLLAMA_RAG
    /\ setup.ended = "returned"
    /\ registered = {"proxy", "health"}

\* ------------------------------------------------------------------------
\* C17, C20: the API key and the legacy query endpoint
\* ------------------------------------------------------------------------
\* the X-API-Key header is missing, empty or not the server's key
BadKey(r) == ~Truthy(r.api_key) \/ r.api_key[1] # ServerKey

\* a request reached the Chat API Service's POST /api/chat
ChatRequested == pc \in {"unauthorized", "responded", "streaming"}

\* a request reached the legacy POST /api/query
LegacyRequested == pc = "legacy"

LegacyHandled ==
    LegacyRequested /\ ~BadKey(lreq) /\ lreq.json = "object"

\* C20: the legacy POST /api/query answers a successful query with the
\* conversation it received followed by one user entry holding the query
\* and one assistant entry holding the first reply; when the pipeline fails
\* it answers HTTP 200 with success false, a null result and the
\* conversation as received.
C20_LegacyQuery ==
    LegacyHandled =>
        IF result # None
        THEN result[1].replies # << >> =>
                 /\ resp.status = 200
                 /\ resp.success
                 /\ resp.result = result
                 /\ resp.messages =
                        legacy_conversation(lreq)
                        \o << Msg("user", lreq.query),
                              Msg("assistant", Some(result[1].replies[1])) >>
        ELSE /\ resp.status = 200
             /\ ~resp.success
             /\ resp.result = None
             /\ resp.messages = legacy_conversation(lreq)

\* ------------------------------------------------------------------------
\* C21, C28, C29: commands and failed turns of the Web Frontend
\* ------------------------------------------------------------------------
\* the step is a POST /api/chat
ChatStep == WebRequestStep /\ webReq'.route = "chat"

\* the message begins with '/'
IsCommand(m) == m # << >> /\ m[1] \in SlashWords

\* the three settings of the session the chat handler works on
Settings(s) ==
    [context |-> get_chat_context(s), es_index |-> s.es_index,
     model_name |-> s.model_name]

\* the error text that names an unknown command
NamesCommand(error, command) ==
    \/ command = "/foo" /\ error = "Unknown command: /foo"
    \/ command = "/bar" /\ error = "Unknown command: /bar"

\* C21: a chat message that begins with '/' causes no backend query,
\* whatever the command and its arguments; a command name outside /help,
\* /index, /model, /clear is answered 400 with an error naming the command
\* and the suggestion to use /help, and the session stays as it was.
C21_CommandsStayLocal ==
    [][(ChatStep /\ IsCommand(webReq'.message)) =>
        /\ backend' = NoCall
        /\ ~webResp'.forwarded
        /\ lower(webReq'.message[1]) \notin {"/help", "/index", "/model", "/clear"} =>
             /\ webResp'.status = 400
             /\ NamesCommand(webResp'.error, lower(webReq'.message[1]))
             /\ webResp'.suggestion = "Use /help to see available commands"
             /\ session' = validated']_vars

\* "/bar n" sent in a session that holds a context and an index override:
\* 400, no backend call, the session as before
C21_Witness ==
    /\ webReq.route = "chat"
    /\ webReq.message = << "/bar", "n" >>
    /\ webResp.status = 400
    /\ webResp.error = "Unknown command: /bar"
    /\ backend = NoCall
    /\ Len(get_chat_context(session)) >= 2
    /\ session.es_index = Some("n")
    /\ session = arrived

\* C28: whenever POST /api/chat does not succeed (400, 503 or 500) the
\* context, the es_index override and the model_name override of the session
\* are what they were when the handler was entered, and what they were
\* before the request when the session was not replaced on entry.
C28_FailedTurnKeepsSession ==
    [][(ChatStep /\ webResp'.status \in {400, 500, 503}) =>
        /\ Settings(session') = Settings(validated')
        /\ validated'.session_id = session.session_id =>
             Settings(session') = Settings(session)]_vars

\* a turn the backend failed (503) in a session that holds a context and an
\* index override, both still there
C28_Witness ==
    /\ webReq.route = "chat"
    /\ webReq.message = << "hello" >>
    /\ webResp.status = 503
    /\ backend # NoCall
    /\ backend[1].outcome = "api_error"
    /\ Len(get_chat_context(session)) >= 2
    /\ session.es_index = Some("n")
    /\ session = arrived

\* C29: "/index" or "/model" without an argument is answered 400 with the
\* error 'Index name is required' / 'Model name is required', and the
\* es_index and model_name overrides stay as they were.
C29_MissingArgumentIs400 ==
    [][(ChatStep /\ webReq'.message \in {<< "/index" >>, << "/model" >>}) =>
        /\ webResp'.status = 400
        /\ webResp'.error = IF webReq'.message = << "/index" >>
                            THEN "Index name is required"
                            ELSE "Model name is required"
        /\ session'.es_index = validated'.es_index
        /\ session'.model_name = validated'.model_name]_vars

\* ------------------------------------------------------------------------
\* C22, C23: the Terminal Chat Client
\* ------------------------------------------------------------------------
\* C22: an APIError of one chat turn is shown as an error message and the
\* loop prompts again; the session ends only on /quit or on an error raised
\* outside the chat turn.
C22_TurnFailureKeepsSession ==
    [][cliPc = "loop" =>
        /\ (cliLast'.op = "turn" /\ cliLast'.outcome = "client_error") =>
             (cliLast'.shown = "error" /\ cliPc' = "loop")
        /\ cliPc' = "ended" =>
             \/ cliLast'.op = "command" /\ lower(cliLast'.input) = "/quit"
             \/ cliLast'.op # "turn"]_vars

\* the entries of a window after one more entry, kept to the last n
WindowAfter(items, entry, n) == KeepLast(Append(items, entry), n)

\* C23: the conversation window never holds more than max_context_size
\* entries; an append to a full window drops the oldest entry; /context
\* with a size n keeps the most recent min(len, n) entries in order and
\* makes n the bound of the later appends.
C23_WindowBounded ==
    /\ [](Len(window.items) <= cliMax)
    /\ [][(cliPc = "loop" /\ cliLast'.op = "turn"
             /\ cliLast'.outcome = "client_error") =>
            window'.items =
                WindowAfter(window.items,
                            [role |-> "user", content |-> cliLast'.input],
                            cliMax)]_vars
    /\ [][(cliPc = "loop" /\ cliLast'.op = "context" /\ cliLast'.size >= 0) =>
            /\ window'.items = KeepLast(window.items, cliLast'.size)
            /\ cliMax' = cliLast'.size]_vars

\* /context 1 on a window whose most recent entry was the reply "r2": that
\* entry alone is kept
C23_Witness ==
    /\ cliPc = "loop"
    /\ cliLast.op = "context"
    /\ cliLast.size = 1
    /\ cliMax = 1
    /\ window.items = << [role |-> "chipper", content |-> "r2"] >>

\* ------------------------------------------------------------------------
\* C30: the clients' health request against the services
\* ------------------------------------------------------------------------
\* C30: with the legacy service or the Chat API Service behind the clients'
\* base_url, up and serving its health routes, the Terminal Chat Client's
\* startup check passes and the client reaches its loop, and the Web
\* Frontend's local-health answers 200.
C30_ClientsSeeHealthy ==
    served \in {"legacy", "api"} =>
        /\ cliLast.op = "health" => cliPc = "loop"
        /\ (localHealth # NoHealth /\ ~Config_raises(webEnv)) =>
             localHealth.status = 200


\* ------------------------------------------------------------------------
\* RAGQueryPipeline claims
\* ------------------------------------------------------------------------
PullRequested == \E i \in 1..Len(qinit.requests) : qinit.requests[i] = "pull"

\* C24: constructing the orchestrator requests a model pull only when the
\* show request reported the model absent and allow_model_pull is true,
\* and a requested pull that fails leaves no usable instance, after one
\* pull request
C24_PullOnlyWhenAllowed ==
    /\ PullRequested => qinit.show = "absent" /\ qcfg.allow_model_pull
    /\ PullRequested /\ qinit.pull = "fail" =>
           /\ orch.state = "failed"
           /\ qinit.requests = << "count", "health", "show", "pull" >>

IsRunQuery == orch'.calls = orch.calls + 1

\* C25: run_query calls create_query_pipeline exactly when query_pipeline
\* is not set and never runs a pipeline that is not built, so the stages
\* are wired once however many calls return; a call runs the pipeline at
\* most once and a failed build or run is raised to the caller
C25_LazyBuildOnce ==
    /\ [][IsRunQuery =>
            /\ orch'.creates = orch.creates + (IF orch.query_pipeline THEN 0 ELSE 1)
            /\ orch'.runs <= orch.runs + 1
            /\ orch'.runs = orch.runs + 1 => orch'.query_pipeline
            /\ orch.query_pipeline => orch'.wired = orch.wired
            /\ (qLast'.build = "error" \/ qLast'.run \in {"bad_request", "error"})
                   <=> qLast'.raised
            /\ qLast'.raised => orch'.returned = orch.returned]_vars
    /\ [](orch.wired <= 1 /\ (orch.query_pipeline <=> orch.wired = 1))
    /\ [](orch.returned >= 1 => orch.wired = 1)

C25_Witness ==
    /\ orch.returned = 2
    /\ orch.wired = 1
    /\ orch.creates = 1
    /\ orch.calls = 3
    /\ qLast.run = "error"
    /\ qLast.raised


\* ------------------------------------------------------------------------
\* Streaming worker claims
\* ------------------------------------------------------------------------
WorkerRunning == pcW \in {"check", "build", "query", "generate"}

\* the frames the thread has put on the queue, in order: those generate()
\* has taken and yielded, then those still queued
WorkerFrames ==
    SelectSeq(emitted, LAMBDA f : f.event = "message" /\ f # invalid_json_frame)
    \o q

DoneFrames(frames) == {i \in 1..Len(frames) : frames[i].done}

\* C26: the thread never waits for the consumer: whatever the generator
\* does and however many frames are queued, the thread's next step (the
\* one that ends the stage it is in included) can be taken; a client that
\* disconnects changes nothing of the thread or the queue, and the thread
\* then still reaches the end of run_rag
C26_WorkerNeverWaits ==
    /\ [](WorkerRunning => ENABLED WorkerNext)
    /\ [](pcW = "generate" => ENABLED run_rag_finish)
    /\ [][pcG' = "disconnected" /\ pcG # "disconnected" =>
            UNCHANGED << pcW, q, sent, nstatus, result, work >>]_vars
    /\ [][pcG = "disconnected" /\ pcW' = "exit" /\ pcW # "exit" =>
            /\ Len(q') = Len(q) + 1
            /\ q'[Len(q')].done]_vars
    /\ (pcG = "disconnected" /\ WorkerRunning) ~> (pcW = "exit")

C26_Witness ==
    /\ pcG = "disconnected"
    /\ pcW = "exit"
    /\ emitted = << >>
    /\ Len(q) = 3
    /\ q[3].done

\* C27: the thread puts exactly one done:true frame, as its last frame, on
\* every path; and once it has finished, generate() takes that frame from
\* the queue and ends (unless the client has gone)
C27_OneDoneFrameThenClose ==
    /\ [](WorkerRunning => DoneFrames(WorkerFrames) = {})
    /\ [](pcW = "exit" => DoneFrames(WorkerFrames) = {Len(WorkerFrames)})
    /\ (pcW = "exit") ~>
         (\/ pcG = "disconnected"
          \/ /\ pcG = "closed"
             /\ q = << >>
             /\ \E i \in 1..Len(emitted) : emitted[i] = WorkerFrames[Len(WorkerFrames)])

\* the first half of C27 alone
OneDoneFrameLast ==
    /\ WorkerRunning => DoneFrames(WorkerFrames) = {}
    /\ pcW = "exit" => DoneFrames(WorkerFrames) = {Len(WorkerFrames)}

====
